---- MODULE Spec2Model ----
(***************************************************************************)
(* Model of the tick-driven pulse pipeline of GSSTM.                       *)
(*                                                                         *)
(* Part 1: LatticeClockSystem (src/lattice_clock.py): the NTP-corrected    *)
(* clock, the one-second scheduling loop running on its own thread, and    *)
(* the start / stop / register_callback API called from the main thread.   *)
(*                                                                         *)
(* Time is discrete: the local clock counts units of 1/UnitsPerSecond      *)
(* second.  Offsets, timestamps and sleep durations are in the same unit.  *)
(* Local variables of the loop that the code never reads again (now and    *)
(* the for-loop position after the last observer, the sleep deadline once  *)
(* a dispatch has begun, everything once the thread has ended) are reset   *)
(* to their initial value.                                                 *)
(*                                                                         *)
(* Scheduling assumption: a loop thread that can run (it is starting, or   *)
(* its time.sleep has expired) runs before a further whole unit passes.    *)
(* An observer may take any time.                                          *)
(***************************************************************************)
EXTENDS Integers, Sequences, FiniteSets, TLC

\* ---------------------------------------------------------------- bounds
UnitsPerSecond == 2
MaxTime == 4
MaxThreads == 2
MaxCallbacks == 2
MaxIdleHours == 1

\* ------------------------------------------------------ program constants
sync_interval == 3600
JoinTimeout == 2
SecondsPerMinute == 60
WakeEarlyPercent == 95

\* How many of its own ticks a loop is remembered to have dispatched.
RecentTicks == 2

\* The local clock at construction: exactly sync_interval seconds after the
\* epoch, so that a failed initial sync (last_sync = 0) is followed first by
\* a call that is not yet due for a resync and then by calls that are.
StartTime == sync_interval * UnitsPerSecond
Hour == sync_interval * UnitsPerSecond

\* The clock is made of whole idle hours (hour_passes) and of the units that
\* have passed one at a time (time_passes).
IdleHours(c) == (c - StartTime) \div Hour
Elapsed(c) == (c - StartTime) % Hour

Threads == 1..MaxThreads

\* What the NTP server may answer: no answer (the request raises), or an
\* offset of -1 s or of +1 min.
NtpOffsets == {0 - UnitsPerSecond, SecondsPerMinute * UnitsPerSecond}
NtpResponses == {[ok |-> FALSE, offset |-> 0]} \cup {[ok |-> TRUE, offset |-> o] : o \in NtpOffsets}
NoSync == [attempt |-> FALSE, ok |-> FALSE, offset |-> 0]
Attempt(resp) == [attempt |-> TRUE, ok |-> resp.ok, offset |-> resp.offset]

VARIABLES
    clock,          \* time.time(), in units
    system_offset,  \* self.system_offset, in units
    last_sync,      \* self.last_sync, in units
    running,        \* self.running
    clock_thread,   \* self.clock_thread: 0 is None, else the thread's id
    callbacks,      \* self.callbacks: sequence of observers
    pc,             \* per loop thread: "unborn", "sleep", "call", "done", "crashed"
    last_second,    \* per loop thread: local last_second of _clock_loop
    now,            \* per loop thread: local now of _clock_loop (corrected, in units)
    idx,            \* per loop thread: position of the for loop over self.callbacks
    wake_at,        \* per loop thread: earliest clock value at which time.sleep returns
    main_pc,        \* the caller of start/stop: "ready", or "join" inside stop()
    join_deadline,  \* clock value at which the bounded join gives up
    constructed,    \* __init__ returned without raising
    \* ---- observation variables, never read by the program ----
    op,             \* what the step that produced this state was
    ntp,            \* the resync attempted by the step that produced this state
    repeat,         \* the step that produced this state invoked an observer for a
                    \* second that is in the dispatching loop's `recent`
    recent,         \* per loop thread: the corrected integer seconds of its last ticks
                    \* that invoked observers (at most RecentTicks of them), forgotten
                    \* when an observer ends after the second of its tick has ended
    tick_log,       \* per loop thread: observers invoked so far in the tick in flight,
                    \* each with its outcome: "running", "returned" or "raised"
    tick_len,       \* per loop thread: Len(callbacks) when the tick in flight began
    stopped         \* per loop thread: stop() cleared the flag while the thread was alive

prog == <<clock, system_offset, last_sync, running, clock_thread, callbacks,
          pc, last_second, now, idx, wake_at, main_pc, join_deadline, constructed>>
hist == <<op, ntp, repeat, recent, tick_log, tick_len, stopped>>
vars == <<prog, hist>>

\* ======================================================================
\* Part 2: PositionInterpolator (src/aircraft_pos.py), used by itself.
\*
\* A Python value that may be None is a sequence of length at most one:
\* <<>> is None and <<v>> is the value v.  A dict is a TLA+ function whose
\* domain is the set of its keys, so that a missing key and a key holding
\* None are different things, as they are for dict.get.
\* ======================================================================
None == <<>>
Some(v) == <<v>>
Val(x) == x[1]

\* self.previous_positions is a dict in insertion order: a sequence of
\* [key, val] entries with pairwise different keys.
VARIABLES
    previous_positions,  \* self.previous_positions
    interp_call,         \* the last call made to the interpolator, with its arguments
    interp_ret           \* what that call returned or raised

interp_vars == <<previous_positions, interp_call, interp_ret>>

Returned(v) == [kind |-> "returned", value |-> v]
Raised(e) == [kind |-> "raised", error |-> e]

\* The interpolator right after construction.
interp_init ==
    /\ previous_positions = <<>>
    /\ interp_call = [op |-> "none"]
    /\ interp_ret = Returned(None)

\* ======================================================================
\* Part 3: the sunset grids of LatticeClockSystem (src/lattice_clock.py),
\* the grid builder (src/sunset_time_calc.py) and the pipeline callback.
\* ======================================================================
VARIABLES
    sunset_grids,   \* self.sunset_grids, a dict in insertion order: region -> grid
    grid_call,      \* the last call made, with its arguments
    grid_ret,       \* what that call returned
    \* ---- observation variable, never read by the program ----
    registration    \* the region names in the order of their first add_sunset_grid

grid_vars == <<sunset_grids, grid_call, grid_ret, registration>>

\* The grids right after construction.
grid_init ==
    /\ sunset_grids = <<>>
    /\ grid_call = [op |-> "none"]
    /\ grid_ret = None
    /\ registration = <<>>

\* ======================================================================
\* Part 4: the pulse generator, PulseGenerator (src/osp.py).
\* ======================================================================
VARIABLES
    cascade_length,  \* self.cascade_length
    sequence_cache,  \* self.sequence_cache, a dict: cache key -> sequence
    pulse_call,      \* the last call made to the generator, with its arguments
    pulse_ret,       \* what that call returned
    \* ---- observation variable, never read by the program ----
    first_seed       \* cache key -> the seed of the first call that used the key

pulse_vars == <<cascade_length, sequence_cache, pulse_call, pulse_ret, first_seed>>

\* def __init__(self, cascade_length=6000)
DefaultCascadeLength == 6000

\* PulseGenerator(n) right after construction.
pulse_init(n) ==
    /\ cascade_length = n
    /\ sequence_cache = <<>>
    /\ pulse_call = [op |-> "none"]
    /\ pulse_ret = None
    /\ first_seed = <<>>

\* ======================================================================
\* Part 5: the feed (src/flight_data_aq.py) and the pulse store
\* (src/pulse_storage.py), the two ends of the pipeline that reach outside
\* the process.
\* ======================================================================
VARIABLES
    feed_call,       \* the last call made to the fetcher or the callback, with its arguments
    feed_ret,        \* what that call returned or raised
    dynamodb_table,  \* self.dynamodb_table
    s3_bucket,       \* self.s3_bucket
    stats,           \* self.stats
    store_call,      \* the last call made to the store, with its arguments
    store_ret,       \* what that call returned or raised
    \* ---- observation variables, never read by the program ----
    feed_log,        \* the sleeps and API requests of the last call, in order
    store_log        \* the backends the last call tried, in order, and how each went

io_vars ==
    <<feed_call, feed_ret, dynamodb_table, s3_bucket, stats, store_call, store_ret,
      feed_log, store_log>>

\* A fetcher, and PulseStorage(dynamodb_table, s3_bucket), right after
\* construction.
io_init(table, bucket) ==
    /\ feed_call = [op |-> "none"]
    /\ feed_ret = Returned(<<>>)
    /\ feed_log = <<>>
    /\ dynamodb_table = table
    /\ s3_bucket = bucket
    /\ stats = [dynamodb_success |-> 0, dynamodb_errors |-> 0, s3_success |-> 0,
                s3_errors |-> 0, local_backups |-> 0]
    /\ store_call = [op |-> "none", calls |-> 0]
    /\ store_ret = Returned(<<>>)
    /\ store_log = <<>>

\* The rest of the program while the clock is modelled.
beyond_clock == <<interp_vars, grid_vars, pulse_vars, io_vars>>
beyond_clock_init ==
    interp_init /\ grid_init /\ pulse_init(DefaultCascadeLength) /\ io_init(None, None)

\* The rest of the program while the interpolator is modelled, and a clock
\* that was constructed (its sync failed) and is never started.
beyond_interp == <<vars, grid_vars, pulse_vars, io_vars>>

\* The rest of the program while the grids are modelled.
beyond_grid == <<vars, interp_vars, pulse_vars, io_vars>>

\* The rest of the program while the pulse generator is modelled.
beyond_pulse == <<vars, interp_vars, grid_vars, io_vars>>

\* The rest of the program while the feed and the store are modelled.
beyond_io == <<vars, interp_vars, grid_vars, pulse_vars>>

clock_idle ==
    /\ clock = StartTime
    /\ system_offset = 0
    /\ last_sync = 0
    /\ constructed = TRUE
    /\ ntp = Attempt([ok |-> FALSE, offset |-> 0])
    /\ running = FALSE
    /\ clock_thread = 0
    /\ callbacks = <<>>
    /\ pc = [t \in Threads |-> "unborn"]
    /\ last_second = [t \in Threads |-> 0 - 1]
    /\ now = [t \in Threads |-> 0]
    /\ idx = [t \in Threads |-> 0]
    /\ wake_at = [t \in Threads |-> 0]
    /\ main_pc = "ready"
    /\ join_deadline = 0
    /\ op = "init"
    /\ repeat = FALSE
    /\ recent = [t \in Threads |-> <<>>]
    /\ tick_log = [t \in Threads |-> <<>>]
    /\ tick_len = [t \in Threads |-> 0]
    /\ stopped = [t \in Threads |-> FALSE]

\* ---------------------------------------------------------------- helpers
Second(t) == t \div UnitsPerSecond
Microsecond(t) == t % UnitsPerSecond
SecondOfMinute(t) == Second(t) % SecondsPerMinute

\* _sync_time without its try/except: a failed request raises to the caller.
sync_time_unguarded(resp, off, ls, t) ==
    IF resp.ok
    THEN [system_offset |-> resp.offset, last_sync |-> t, raised |-> FALSE]
    ELSE [system_offset |-> off, last_sync |-> ls, raised |-> TRUE]

\* _sync_time clearing the offset when the request fails.
sync_time_resets(resp, off, ls, t) ==
    IF resp.ok
    THEN [system_offset |-> resp.offset, last_sync |-> t, raised |-> FALSE]
    ELSE [system_offset |-> 0, last_sync |-> ls, raised |-> FALSE]

\* _sync_time recording the time of the attempt whether it succeeded or not.
sync_time_stamps(resp, off, ls, t) ==
    IF resp.ok
    THEN [system_offset |-> resp.offset, last_sync |-> t, raised |-> FALSE]
    ELSE [system_offset |-> off, last_sync |-> t, raised |-> FALSE]

\* _sync_time: the new (system_offset, last_sync) and whether an exception
\* leaves the method.  t is time.time() after the response arrived.
sync_time(resp, off, ls, t) ==
    IF resp.ok
    THEN [system_offset |-> resp.offset, last_sync |-> t, raised |-> FALSE]
    ELSE [system_offset |-> off, last_sync |-> ls, raised |-> FALSE]

\* The resync test with >= in place of >.
sync_due_inclusive(t, ls) == t - ls >= sync_interval * UnitsPerSecond

\* get_accurate_time: resync if due, then local time plus the offset.
sync_due(t, ls) == t - ls > sync_interval * UnitsPerSecond

get_accurate_time(resp, off, ls, t) ==
    LET s == IF sync_due(t, ls) THEN sync_time(resp, off, ls, t)
             ELSE [system_offset |-> off, last_sync |-> ls, raised |-> FALSE]
    IN  [system_offset |-> s.system_offset, last_sync |-> s.last_sync,
         raised |-> s.raised, synced |-> sync_due(t, ls),
         value |-> t + s.system_offset]

\* sleep_time of _clock_loop: 95% of what is left of the second of `now`.
sleep_time(n) == (WakeEarlyPercent * (UnitsPerSecond - Microsecond(n))) \div 100

\* ------------------------------------------------------------------- Init
Init ==
    \E resp \in NtpResponses :
        LET s == sync_time(resp, 0, 0, StartTime) IN
        /\ clock = StartTime
        /\ system_offset = s.system_offset
        /\ last_sync = s.last_sync
        /\ constructed = ~s.raised
        /\ ntp = Attempt(resp)
        /\ running = FALSE
        /\ clock_thread = 0
        /\ callbacks = <<>>
        /\ pc = [t \in Threads |-> "unborn"]
        /\ last_second = [t \in Threads |-> 0 - 1]
        /\ now = [t \in Threads |-> 0]
        /\ idx = [t \in Threads |-> 0]
        /\ wake_at = [t \in Threads |-> 0]
        /\ main_pc = "ready"
        /\ join_deadline = 0
        /\ op = "init"
        /\ repeat = FALSE
        /\ recent = [t \in Threads |-> <<>>]
        /\ tick_log = [t \in Threads |-> <<>>]
        /\ tick_len = [t \in Threads |-> 0]
        /\ stopped = [t \in Threads |-> FALSE]
        /\ beyond_clock_init

\* ------------------------------------------------------------ API actions
\* register_callback: a plain append to self.callbacks.  The k-th callable
\* registered is named k.
register_callback ==
    /\ main_pc = "ready"
    /\ Len(callbacks) < MaxCallbacks
    /\ callbacks' = Append(callbacks, Len(callbacks) + 1)
    /\ op' = "register"
    /\ ntp' = NoSync
    /\ repeat' = FALSE
    /\ UNCHANGED <<clock, system_offset, last_sync, running, clock_thread,
                   pc, last_second, now, idx, wake_at, main_pc, join_deadline, constructed>>
    /\ UNCHANGED <<recent, tick_log, tick_len, stopped>>
    /\ UNCHANGED beyond_clock

\* The Thread object start() creates: the first identifier not used yet.
new_thread == CHOOSE t \in Threads : pc[t] = "unborn" /\ \A u \in Threads : pc[u] = "unborn" => t <= u

\* start() without its guard.
start_never_returns_early == FALSE

\* start(): returns at once when self.running is set.
start_returns_early == running

start ==
    /\ main_pc = "ready"
    /\ start_returns_early \/ \E t \in Threads : pc[t] = "unborn"
    /\ op' = "start"
    /\ ntp' = NoSync
    /\ repeat' = FALSE
    /\ IF start_returns_early
       THEN UNCHANGED <<running, clock_thread, pc, last_second, wake_at>>
       ELSE /\ running' = TRUE
            /\ clock_thread' = new_thread
            /\ pc' = [pc EXCEPT ![new_thread] = "sleep"]
            /\ last_second' = [last_second EXCEPT ![new_thread] = 0 - 1]
            /\ wake_at' = [wake_at EXCEPT ![new_thread] = clock]
    /\ UNCHANGED <<clock, system_offset, last_sync, callbacks, now, idx,
                   main_pc, join_deadline, constructed>>
    /\ UNCHANGED <<recent, tick_log, tick_len, stopped>>
    /\ UNCHANGED beyond_clock

\* stop(): returns at once when self.running is clear; otherwise clears it
\* and joins self.clock_thread for at most JoinTimeout seconds.
stop_returns_early == ~running

Alive(t) == pc[t] \in {"sleep", "call"}

stop ==
    /\ main_pc = "ready"
    /\ op' = "stop"
    /\ ntp' = NoSync
    /\ repeat' = FALSE
    /\ IF stop_returns_early
       THEN UNCHANGED <<running, main_pc, join_deadline, stopped>>
       ELSE /\ running' = FALSE
            /\ IF clock_thread # 0
               THEN /\ main_pc' = "join"
                    /\ join_deadline' = clock + JoinTimeout * UnitsPerSecond
               ELSE UNCHANGED <<main_pc, join_deadline>>
            /\ stopped' = [t \in Threads |-> stopped[t] \/ Alive(t)]
    /\ UNCHANGED <<clock, system_offset, last_sync, clock_thread, callbacks,
                   pc, last_second, now, idx, wake_at, constructed>>
    /\ UNCHANGED <<recent, tick_log, tick_len>>
    /\ UNCHANGED beyond_clock

\* clock_thread.join(timeout=2.0) returns: the thread has ended, or the
\* timeout has expired.
join_returns ==
    /\ main_pc = "join"
    /\ pc[clock_thread] \in {"done", "crashed"} \/ clock >= join_deadline
    /\ main_pc' = "ready"
    /\ join_deadline' = 0
    /\ op' = "joined"
    /\ ntp' = NoSync
    /\ repeat' = FALSE
    /\ UNCHANGED <<clock, system_offset, last_sync, running, clock_thread, callbacks,
                   pc, last_second, now, idx, wake_at, constructed>>
    /\ UNCHANGED <<recent, tick_log, tick_len, stopped>>
    /\ UNCHANGED beyond_clock

\* ------------------------------------------------------- the loop thread
\* for callback in self.callbacks: the list iterator reads position i of the
\* list as it is when the position is reached.
callback_at_reversed(cbs, i) == cbs[Len(cbs) - i + 1]
callback_at(cbs, i) == cbs[i]
has_next(cbs, i) == i < Len(cbs)

Invoked(cb) == [cb |-> cb, out |-> "running"]
Ended(log, raises) ==
    [log EXCEPT ![Len(log)].out = IF raises THEN "raised" ELSE "returned"]

\* callback(now) outside any try: an observer's exception ends the loop.
exception_uncaught(raises) == raises

\* try: callback(now) except Exception: an observer's exception never
\* leaves the for loop.
exception_escapes(raises) == FALSE

\* callback(get_accurate_time()): every observer is handed the time read
\* when it is invoked.
read_again(n, fresh) == fresh

\* callback(now): the argument of the next observer of the tick, where n is
\* the `now` of the iteration and fresh the corrected time at the invocation.
handed_on(n, fresh) == n

\* The ticks a loop is remembered to have dispatched.
Remember(r, s) == IF Len(r) < RecentTicks THEN Append(r, s) ELSE Append(Tail(r), s)
Remembered(r, s) == \E i \in 1..Len(r) : r[i] = s
EndsLate(t) == Second(clock + system_offset) # Second(now[t])

\* while self.running: the test that ends the loop.
loop_ends == ~running

\* if current_second != last_second: the test that starts a dispatch.
new_second(current_second, last) == current_second # last

\* The thread function returns; its locals are gone.
thread_exit(t, how) ==
    /\ pc' = [pc EXCEPT ![t] = how]
    /\ last_second' = [last_second EXCEPT ![t] = 0 - 1]
    /\ now' = [now EXCEPT ![t] = 0]
    /\ idx' = [idx EXCEPT ![t] = 0]
    /\ wake_at' = [wake_at EXCEPT ![t] = 0]
    /\ tick_log' = [tick_log EXCEPT ![t] = <<>>]
    /\ tick_len' = [tick_len EXCEPT ![t] = 0]
    /\ recent' = [recent EXCEPT ![t] = <<>>]

\* time.sleep(sleep_time) at the end of an iteration that read n.
go_to_sleep(t, n) ==
    /\ pc' = [pc EXCEPT ![t] = "sleep"]
    /\ wake_at' = [wake_at EXCEPT ![t] = clock + sleep_time(n)]
    /\ now' = [now EXCEPT ![t] = 0]
    /\ idx' = [idx EXCEPT ![t] = 0]
    /\ tick_log' = [tick_log EXCEPT ![t] = <<>>]
    /\ tick_len' = [tick_len EXCEPT ![t] = 0]

\* while self.running: the flag is clear, the loop and its thread end.
loop_exit(t) ==
    /\ pc[t] = "sleep"
    /\ clock >= wake_at[t]
    /\ loop_ends
    /\ thread_exit(t, "done")
    /\ op' = "exit"
    /\ ntp' = NoSync
    /\ repeat' = FALSE
    /\ UNCHANGED <<clock, system_offset, last_sync, running, clock_thread, callbacks,
                   main_pc, join_deadline, constructed>>
    /\ UNCHANGED stopped
    /\ UNCHANGED beyond_clock

\* One iteration of the loop body up to the first observer call, or up to
\* time.sleep when no observer is called.
loop_iteration(t) ==
    /\ pc[t] = "sleep"
    /\ clock >= wake_at[t]
    /\ ~loop_ends
    /\ \E resp \in NtpResponses :
        LET g == get_accurate_time(resp, system_offset, last_sync, clock)
            current_second == SecondOfMinute(g.value)
        IN
        /\ system_offset' = g.system_offset
        /\ last_sync' = g.last_sync
        /\ ntp' = IF g.synced THEN Attempt(resp) ELSE NoSync
        /\ IF g.raised
           THEN /\ thread_exit(t, "crashed")
                /\ op' = "crash"
                /\ UNCHANGED repeat
           ELSE IF new_second(current_second, last_second[t])
           THEN /\ last_second' = [last_second EXCEPT ![t] = current_second]
                /\ recent' = [recent EXCEPT ![t] =
                        IF Len(callbacks) > 0 THEN Remember(@, Second(g.value)) ELSE @]
                /\ repeat' = (Len(callbacks) > 0 /\ Remembered(recent[t], Second(g.value)))
                /\ op' = "dispatch"
                /\ IF Len(callbacks) > 0
                   THEN /\ pc' = [pc EXCEPT ![t] = "call"]
                        /\ now' = [now EXCEPT ![t] = g.value]
                        /\ idx' = [idx EXCEPT ![t] = 1]
                        /\ wake_at' = [wake_at EXCEPT ![t] = 0]
                        /\ tick_log' = [tick_log EXCEPT ![t] = <<Invoked(callback_at(callbacks, 1))>>]
                        /\ tick_len' = [tick_len EXCEPT ![t] = Len(callbacks)]
                   ELSE go_to_sleep(t, g.value)
           ELSE /\ go_to_sleep(t, g.value)
                /\ op' = "recheck"
                /\ repeat' = FALSE
                /\ UNCHANGED <<last_second, recent>>
    /\ UNCHANGED <<clock, running, clock_thread, callbacks, main_pc, join_deadline, constructed>>
    /\ UNCHANGED stopped
    /\ UNCHANGED beyond_clock

\* The observer in flight returns or raises; the for loop goes on to the
\* next observer, or the iteration ends in time.sleep(sleep_time).
observer_ends(t, raises) ==
    /\ pc[t] = "call"
    /\ op' = IF raises THEN "raise" ELSE "return"
    /\ ntp' = NoSync
    /\ repeat' = FALSE
    /\ IF exception_escapes(raises)
       THEN thread_exit(t, "crashed")
       ELSE IF has_next(callbacks, idx[t])
       THEN /\ idx' = [idx EXCEPT ![t] = @ + 1]
            /\ tick_log' = [tick_log EXCEPT ![t] =
                    Append(Ended(@, raises), Invoked(callback_at(callbacks, idx[t] + 1)))]
            /\ recent' = [recent EXCEPT ![t] = IF EndsLate(t) THEN <<>> ELSE @]
            /\ now' = [now EXCEPT ![t] = handed_on(@, clock + system_offset)]
            /\ UNCHANGED <<pc, last_second, wake_at, tick_len>>
       ELSE /\ go_to_sleep(t, now[t])
            /\ recent' = [recent EXCEPT ![t] = IF EndsLate(t) THEN <<>> ELSE @]
            /\ UNCHANGED last_second
    /\ UNCHANGED <<clock, system_offset, last_sync, running, clock_thread, callbacks,
                   main_pc, join_deadline, constructed>>
    /\ UNCHANGED stopped
    /\ UNCHANGED beyond_clock

\* The local clock advances by one unit.
Runnable(t) == pc[t] = "sleep" /\ clock >= wake_at[t] + 1

time_passes ==
    /\ Elapsed(clock) < MaxTime
    /\ \A t \in Threads : ~Runnable(t)
    /\ clock' = clock + 1
    /\ op' = "time"
    /\ ntp' = NoSync
    /\ repeat' = FALSE
    /\ UNCHANGED <<system_offset, last_sync, running, clock_thread, callbacks,
                   pc, last_second, now, idx, wake_at, main_pc, join_deadline, constructed>>
    /\ UNCHANGED <<recent, tick_log, tick_len, stopped>>
    /\ UNCHANGED beyond_clock

\* An hour passes while no loop thread exists and no call is in progress.
hour_passes ==
    /\ IdleHours(clock) < MaxIdleHours
    /\ main_pc = "ready"
    /\ \A t \in Threads : ~Alive(t)
    /\ clock' = clock + Hour
    /\ op' = "time"
    /\ ntp' = NoSync
    /\ repeat' = FALSE
    /\ UNCHANGED <<system_offset, last_sync, running, clock_thread, callbacks,
                   pc, last_second, now, idx, wake_at, main_pc, join_deadline, constructed>>
    /\ UNCHANGED <<recent, tick_log, tick_len, stopped>>
    /\ UNCHANGED beyond_clock

Next ==
    \/ register_callback
    \/ start
    \/ stop
    \/ join_returns
    \/ \E t \in Threads : loop_exit(t)
    \/ \E t \in Threads : loop_iteration(t)
    \/ \E t \in Threads : \E raises \in BOOLEAN : observer_ends(t, raises)
    \/ time_passes
    \/ hour_passes

Spec == Init /\ [][Next]_vars

TypeOK ==
    /\ clock >= StartTime
    /\ Elapsed(clock) <= MaxTime
    /\ IdleHours(clock) <= MaxIdleHours
    /\ running \in BOOLEAN
    /\ clock_thread \in 0..MaxThreads
    /\ Len(callbacks) <= MaxCallbacks
    /\ \A t \in Threads : pc[t] \in {"unborn", "sleep", "call", "done", "crashed"}
    /\ main_pc \in {"ready", "join"}

\* The loop threads are scheduled, observers return, time passes.
FairSpec ==
    /\ Spec
    /\ WF_vars(time_passes)
    /\ \A t \in Threads : WF_vars(loop_exit(t))
    /\ \A t \in Threads : WF_vars(loop_iteration(t))
    /\ \A t \in Threads : WF_vars(\E raises \in BOOLEAN : observer_ends(t, raises))

\* ----------------------------------------------------------------- claims
InDispatch == {t \in Threads : pc[t] = "call"}
Started == {t \in Threads : pc[t] # "unborn"}
Stepped(t) == <<pc[t], idx[t]>> # <<pc'[t], idx'[t]>>
RaisedIn(log) == \E i \in 1..Len(log) : log[i].out = "raised"

\* C1: at most one tick dispatch is in flight at any time, also after a
\* stop() whose join timed out and a further start().
C1_OneDispatchInFlight == Cardinality(InDispatch) <= 1

\* C2: no integer second of corrected time is dispatched twice, however the
\* clock offset evolves.  Stated of each loop by itself, so that two loops
\* are not what repeats the second: no observer is invoked for a second for
\* which the same loop invoked the observers before.
C2_AtMostOncePerSecond == ~repeat

\* C3: while the scheduler is running a single loop whose observers all end
\* within the second of their tick, every observer is invoked exactly once
\* per second: the second of a tick in flight is not one of the seconds that
\* the loop dispatched before (and whose observers ended in time), and no
\* observer is invoked twice in the tick.
C3_ExactlyOncePerSecond ==
    \A t \in Threads : (Started = {t} /\ running /\ pc[t] = "call") =>
        /\ ~repeat
        /\ \A i, j \in 1..Len(tick_log[t]) :
               tick_log[t][i].cb = tick_log[t][j].cb => i = j

\* C4: an observer that raises does not stop the for loop (the observers
\* after it are invoked on the same tick, the tick ends with every registered
\* observer invoked), does not end the loop thread, and a later tick of the
\* same loop is dispatched unless the loop is stopped or the run ends.
C4_RaiseStep ==
    \A t \in Threads : (pc[t] = "call" /\ Stepped(t) /\ op' = "raise") =>
        IF idx[t] < Len(callbacks)
        THEN /\ pc'[t] = "call"
             /\ idx'[t] = idx[t] + 1
             /\ tick_log'[t][idx[t]].out = "raised"
             /\ tick_log'[t][idx[t] + 1] = [cb |-> callbacks[idx[t] + 1], out |-> "running"]
        ELSE /\ pc'[t] = "sleep"
             /\ last_second'[t] = last_second[t]
             /\ Len(tick_log[t]) = Len(callbacks)

C5_RegistrationOrder ==
    \A t \in Threads : pc[t] = "call" =>
        /\ Len(tick_log[t]) = idx[t]
        /\ \A i \in 1..Len(tick_log[t]) :
              /\ tick_log[t][i].cb = i
              /\ tick_log[t][i].cb = callbacks[i]
              /\ (tick_log[t][i].out = "running") = (i = Len(tick_log[t]))

C5_Witness ==
    \E t \in Threads :
        /\ pc[t] = "call"
        /\ Len(tick_log[t]) = 2
        /\ tick_log[t][1].out = "returned"

\* C6: start() while running and stop() while not running change nothing of
\* the program's state; in particular no thread is created.
C6_NoOpStep ==
    /\ (op' = "start" /\ running) => UNCHANGED prog
    /\ (op' = "stop" /\ ~running) => UNCHANGED prog

C6_StartStopNoOp == [][C6_NoOpStep]_vars

C6_Witness ==
    /\ op = "start"
    /\ running
    /\ \E t \in Threads : pc[t] = "call"

\* C7: a loop thread ends only after stop() has cleared the running flag
\* while it was alive; no exception ends it.
C7_EndsOnlyOnStop ==
    \A t \in Threads :
        /\ pc[t] # "crashed"
        /\ pc[t] = "done" => stopped[t]

C7_Witness ==
    /\ \E t \in Threads : pc[t] = "done" /\ stopped[t]
    /\ \E t \in Threads : pc[t] = "call" /\ RaisedIn(tick_log[t])

\* C8: after stop() has cleared the flag, a loop that was alive begins no
\* further tick.
C8_NoTickStep ==
    \A t \in Threads : (stopped[t] /\ Stepped(t)) => op' # "dispatch"

C8_NoTickAfterStop == [][C8_NoTickStep]_vars

\* C9: a registration made during the dispatch of a tick does not change the
\* observers invoked in that tick.
C9_RegistrationNotInTick ==
    \A t \in Threads : pc[t] = "call" => Len(tick_log[t]) <= tick_len[t]

\* C10: a resync that fails leaves system_offset and last_sync as they were
\* and one that succeeds replaces both; no exception leaves the constructor
\* or get_accurate_time.
C10_SyncStep ==
    ntp'.attempt =>
        /\ IF ntp'.ok
           THEN system_offset' = ntp'.offset /\ last_sync' = clock
           ELSE system_offset' = system_offset /\ last_sync' = last_sync
        /\ \A t \in Threads : pc'[t] # "crashed"

C10_Constructed ==
    op = "init" =>
        /\ constructed
        /\ ntp.attempt
        /\ IF ntp.ok
           THEN system_offset = ntp.offset /\ last_sync = clock
           ELSE system_offset = 0 /\ last_sync = 0

C10_SyncFailureKeepsOffset == C10_Constructed /\ [][C10_SyncStep]_vars

C10_Witness ==
    /\ ntp.attempt
    /\ ~ntp.ok
    /\ op # "init"
    /\ system_offset # 0
    /\ last_sync # 0

\* C11: get_accurate_time attempts a resync exactly when local time minus
\* the last successful sync exceeds sync_interval (at a difference of exactly
\* sync_interval it does not), no other operation attempts one, and the value
\* it returns is local time plus the offset in effect after the attempt,
\* whether the attempt succeeded or failed.
C11_CallStep ==
    /\ ntp'.attempt =>
          /\ op' \in {"dispatch", "recheck"}
          /\ clock - last_sync > sync_interval * UnitsPerSecond
    /\ (op' \in {"dispatch", "recheck"} /\ clock - last_sync > sync_interval * UnitsPerSecond)
          => ntp'.attempt
    /\ \A t \in Threads : (pc[t] = "sleep" /\ pc'[t] = "call") =>
          /\ op' = "dispatch"
          /\ now'[t] = clock + system_offset'
          /\ system_offset' = IF ntp'.attempt /\ ntp'.ok THEN ntp'.offset ELSE system_offset

C11_ResyncWhenDue == [][C11_CallStep]_vars

C11_Witness ==
    /\ op = "dispatch"
    /\ ntp.attempt
    /\ ~ntp.ok
    /\ system_offset # 0
    /\ \E t \in Threads : pc[t] = "call" /\ now[t] = clock + system_offset

\* C34: in each loop iteration, whenever the integer second of the corrected
\* time just read differs from the integer second of the last dispatched
\* tick, the observers are dispatched in that iteration, whatever the size
\* of the difference (a whole number of minutes included).  Stated of a
\* single loop and of the last tick it is remembered to have dispatched: an
\* iteration that dispatches nothing has read the second of that tick.
C34_Step ==
    \A t \in Threads :
        (/\ Started = {t}
         /\ op' = "recheck"
         /\ Len(recent[t]) > 0)
        => Second(clock + system_offset') = recent[t][Len(recent[t])]

C34_DifferentSecondDispatched == [][C34_Step]_vars

\* C39: every observer invoked in one tick receives the same corrected time,
\* the one read at the start of the loop iteration: while the tick is in
\* flight the value handed to the observers does not change, however long
\* the earlier observers of the tick took.
C39_Step ==
    \A t \in Threads : (pc[t] = "call" /\ pc'[t] = "call") => now'[t] = now[t]

C39_SameTimeForAll == [][C39_Step]_vars

C39_Witness ==
    \E t \in Threads :
        /\ Started = {t}
        /\ pc[t] = "call"
        /\ idx[t] = 2
        /\ op \in {"return", "raise"}
        /\ clock + system_offset >= now[t] + UnitsPerSecond

\* C40: a failed resync does not advance last_sync, so the resync stays due:
\* from then on every call of get_accurate_time (every loop iteration) makes
\* an attempt, until one succeeds.
C40_Step ==
    /\ (ntp'.attempt /\ ~ntp'.ok) =>
           /\ last_sync' = last_sync
           /\ clock - last_sync' > sync_interval * UnitsPerSecond
    /\ (ntp.attempt /\ ~ntp.ok /\ op # "init" /\ op' \in {"dispatch", "recheck"})
           => ntp'.attempt
    /\ (last_sync = 0 /\ clock > StartTime /\ op' \in {"dispatch", "recheck"})
           => ntp'.attempt

C40_RetriesUntilSynced == [][C40_Step]_vars

C40_Witness ==
    /\ op \in {"dispatch", "recheck"}
    /\ ntp.attempt
    /\ ~ntp.ok
    /\ last_sync = 0
    /\ clock >= StartTime + 2
    /\ \E t \in Threads : Started = {t} /\ Len(recent[t]) >= 2

\* ======================================================================
\* Part 2: PositionInterpolator (src/aircraft_pos.py)
\* ======================================================================
\* The longest batch handed to process_aircraft_data, and the source time
\* of the states of the feed.
MaxBatch == 2
Stamp == 20

\* abs(time_diff) > 15: the staleness bound, in seconds.
StaleSeconds == 15

\* cleanup_old_positions(self, max_age=60): the default age, in seconds.
DefaultMaxAge == 60

\* The identifiers of the tracked aircraft.
Icaos == {Some("abc123"), Some("def456")}

\* dict.get(key, default), and the truth value of a string and of a number.
get(d, k, default) == IF k \in DOMAIN d THEN d[k] ELSE default
\* A truth value that takes the empty string for an identifier, and one that
\* takes no number for a rate.
not_none(x) == x # None
no_rate(x) == FALSE
truthy_str(x) == x # None /\ x # Some("")
truthy_num(x) == x # None /\ x # Some(0)
abs(n) == IF n < 0 THEN 0 - n ELSE n

\* A dict with one key removed, and with one key set.
Without(d, k) == [x \in DOMAIN d \ {k} |-> d[x]]
With(d, k, v) == [x \in DOMAIN d \cup {k} |-> IF x = k THEN v ELSE d[x]]

\* An ordered dict: its keys, the value of a key, and d[k] = v.
keys(d) == {d[i].key : i \in 1..Len(d)}
at(d, k) == d[CHOOSE i \in 1..Len(d) : d[i].key = k].val
\* d[k].update(v) for the fields of v that are not None, where d[k] exists:
\* an assignment that lets the old value show through.
put_merged(d, k, v) ==
    IF k \in keys(d)
    THEN [i \in 1..Len(d) |->
              IF d[i].key = k
              THEN [key |-> k,
                    val |-> [f \in DOMAIN v |-> IF v[f] = None THEN d[i].val[f] ELSE v[f]]]
              ELSE d[i]]
    ELSE Append(d, [key |-> k, val |-> v])
put(d, k, v) ==
    IF k \in keys(d)
    THEN [i \in 1..Len(d) |-> IF d[i].key = k THEN [key |-> k, val |-> v] ELSE d[i]]
    ELSE Append(d, [key |-> k, val |-> v])

\* ---------------------------------------------------------------- inputs
\* A state of the feed without its identifier.  Latitude and longitude are
\* counted in units of 1/111320 degree (one metre of latitude), speed in
\* m/s, heading in degrees, altitude in metres, vertical rate in m/s.
Complete(alt, vr) ==
    [timestamp |-> Some(Stamp), latitude |-> Some(0), longitude |-> Some(0),
     altitude |-> alt, velocity |-> Some(200), heading |-> Some(0),
     vertical_rate |-> vr]

Climbing == Complete(Some(1000), Some(2))

\* Latitudes and longitudes are whole numbers of 1/DegreeUnits degree, and
\* cosines and sines whole numbers of 1/TrigScale.
DegreeUnits == 100000
TrigScale == 10000

\* A state recorded at (37.7749, -122.4194), flying east at 200 m/s, with
\* no vertical_rate key.
Eastbound ==
    [timestamp |-> Some(Stamp), latitude |-> Some(3777490), longitude |-> Some(0 - 12241940),
     altitude |-> Some(10000), velocity |-> Some(200), heading |-> Some(90)]

\* Every combination of altitude and vertical rate with the other fields
\* present; each required field None in turn; the timestamp key and the
\* vertical_rate key absent.
Shapes ==
    {Complete(alt, vr) : alt \in {None, Some(1000)}, vr \in {None, Some(0), Some(2)}}
    \cup {[Climbing EXCEPT ![f] = None] :
              f \in {"latitude", "longitude", "timestamp", "velocity", "heading"}}
    \cup {Without(Climbing, "timestamp"), Without(Climbing, "vertical_rate"), Eastbound}

\* What update_aircraft_position is called with: every shape under every
\* identifier, and a state whose identifier is None, is the empty string,
\* or is absent.
States ==
    {With(s, "icao24", i) : s \in Shapes, i \in Icaos}
    \cup {With(Climbing, "icao24", None), With(Climbing, "icao24", Some("")), Climbing}

\* The states batches are made of: two observations of one aircraft, one of
\* the other whose altitude is unknown, and one without identifier.
FeedStates ==
    {With(Climbing, "icao24", Some("abc123")),
     With(Complete(Some(1000), Some(0)), "icao24", Some("abc123")),
     With(Complete(None, Some(2)), "icao24", Some("def456")),
     Climbing}

RECURSIVE SeqsUpTo(_, _)
SeqsUpTo(S, n) ==
    IF n = 0 THEN {<<>>}
    ELSE LET shorter == SeqsUpTo(S, n - 1)
         IN  shorter \cup {Append(q, x) : q \in {r \in shorter : Len(r) = n - 1}, x \in S}

Batches == SeqsUpTo(FeedStates, MaxBatch)

\* The times projections are asked for: the staleness bound and one second
\* more, before and after the stored timestamp.
TickTimes ==
    {Stamp - StaleSeconds - 1, Stamp - StaleSeconds, Stamp, Stamp + 1,
     Stamp + StaleSeconds, Stamp + StaleSeconds + 1}

\* ------------------------------------------------------------- operations
\* update_aircraft_position: the mapping after the call.
update_aircraft_position(pp, aircraft_data, time_time) ==
    LET icao24 == get(aircraft_data, "icao24", None) IN
    IF ~truthy_str(icao24) THEN pp
    ELSE put(pp, icao24,
             [timestamp |-> get(aircraft_data, "timestamp", Some(time_time)),
              latitude |-> get(aircraft_data, "latitude", None),
              longitude |-> get(aircraft_data, "longitude", None),
              altitude |-> get(aircraft_data, "altitude", None),
              velocity |-> get(aircraft_data, "velocity", None),
              heading |-> get(aircraft_data, "heading", None),
              vertical_rate |-> get(aircraft_data, "vertical_rate", Some(0))])

\* math.cos(math.radians(a)) and math.sin(math.radians(a)) in units of
\* 1/TrigScale, for an angle a in units of 1/DegreeUnits degree: the
\* headings 0 and 90 and the latitudes 0 and 37.7749.  The float
\* cos(radians(90)) is 6.1e-17, which is 0 at this scale.
cos_deg(a) ==
    CASE a = 0 -> TrigScale
      [] a = 90 * DegreeUnits -> 0
      [] a = 3777490 -> 7904
sin_deg_mirrored(a) ==
    CASE a = 0 -> 0
      [] a = 90 * DegreeUnits -> 0 - TrigScale
sin_deg(a) ==
    CASE a = 0 -> 0
      [] a = 90 * DegreeUnits -> TrigScale

\* x / y for y > 0, rounded to the nearest whole number.
nearest(x, y) == (x + y \div 2) \div y

\* meters_per_lat = 111320
meters_per_lat == 111320

\* encode(latitude, longitude): the label of a coordinate, left uninterpreted.
encode(latitude, longitude) == <<"plus_code", latitude, longitude>>

\* new_alt += vertical_rate * time_diff with new_alt None: Python raises
\* TypeError.
adds_to_none(prev_data) ==
    truthy_num(prev_data.vertical_rate) /\ prev_data.altitude = None

\* interpolate_position: what the call returns or raises.
interpolate_position(pp, icao24, timestamp) ==
    IF icao24 \notin keys(pp) THEN Returned(None)
    ELSE
    LET prev_data == at(pp, icao24)
        time_diff == timestamp - Val(prev_data.timestamp)
        distance == Val(prev_data.velocity) * time_diff
        heading == Val(prev_data.heading) * DegreeUnits
        meters_per_lon == nearest(meters_per_lat * cos_deg(Val(prev_data.latitude)), TrigScale)
        delta_lat == nearest(nearest(distance * cos_deg(heading), TrigScale) * DegreeUnits,
                             meters_per_lat)
        delta_lon == nearest(nearest(distance * sin_deg(heading), TrigScale) * DegreeUnits,
                             meters_per_lon)
        new_lat == Val(prev_data.latitude) + delta_lat
        new_lon == Val(prev_data.longitude) + delta_lon
        new_alt == IF truthy_num(prev_data.vertical_rate)
                   THEN Some(Val(prev_data.altitude) + Val(prev_data.vertical_rate) * time_diff)
                   ELSE prev_data.altitude
    IN  IF \/ prev_data.latitude = None
           \/ prev_data.longitude = None
           \/ prev_data.timestamp = None
           \/ prev_data.velocity = None
           \/ prev_data.heading = None
        THEN Returned(None)
        ELSE IF abs(time_diff) > StaleSeconds THEN Returned(None)
        ELSE IF adds_to_none(prev_data) THEN Raised("TypeError")
        ELSE Returned(Some([icao24 |-> icao24,
                            timestamp |-> Some(timestamp),
                            latitude |-> Some(new_lat),
                            longitude |-> Some(new_lon),
                            altitude |-> new_alt,
                            plus_code |-> encode(new_lat, new_lon),
                            interpolated |-> TRUE]))

\* for aircraft in aircraft_list: self.update_aircraft_position(aircraft)
RECURSIVE update_all(_, _, _)
update_all(pp, aircraft_list, time_time) ==
    IF aircraft_list = <<>> THEN pp
    ELSE update_all(update_aircraft_position(pp, Head(aircraft_list), time_time),
                    Tail(aircraft_list), time_time)

\* next((a for a in aircraft_list if a.get("icao24") == icao24), None)
current_data(aircraft_list, icao24) ==
    LET hits == {i \in 1..Len(aircraft_list) : get(aircraft_list[i], "icao24", None) = icao24}
    IN  IF hits = {} THEN None
        ELSE Some(aircraft_list[CHOOSE i \in hits : \A j \in hits : i <= j])

\* for icao24 in self.previous_positions, from the i-th key on, with
\* processed_data so far.
RECURSIVE merge(_, _, _, _, _)
merge(pp, aircraft_list, tick_timestamp, i, processed_data) ==
    IF i > Len(pp) THEN Returned(processed_data)
    ELSE
    LET icao24 == pp[i].key
        live == current_data(aircraft_list, icao24)
        interpolated == interpolate_position(pp, icao24, tick_timestamp)
    IN  IF live # None
        THEN merge(pp, aircraft_list, tick_timestamp, i + 1, Append(processed_data, Val(live)))
        ELSE IF interpolated.kind = "raised" THEN interpolated
        ELSE IF interpolated.value # None
        THEN merge(pp, aircraft_list, tick_timestamp, i + 1,
                   Append(processed_data, Val(interpolated.value)))
        ELSE merge(pp, aircraft_list, tick_timestamp, i + 1, processed_data)

\* A process_aircraft_data that records what it returns, projections
\* included.
process_aircraft_data_storing(pp, aircraft_list, tick_timestamp, time_time) ==
    LET recorded == update_all(pp, aircraft_list, time_time)
        ret == merge(recorded, aircraft_list, tick_timestamp, 1, <<>>)
    IN  [previous_positions |-> IF ret.kind = "returned"
                                THEN update_all(recorded, ret.value, time_time)
                                ELSE recorded,
         ret |-> ret]

\* process_aircraft_data: the mapping after the call and what it returns.
process_aircraft_data(pp, aircraft_list, tick_timestamp, time_time) ==
    LET recorded == update_all(pp, aircraft_list, time_time)
    IN  [previous_positions |-> recorded,
         ret |-> merge(recorded, aircraft_list, tick_timestamp, 1, <<>>)]

\* cleanup_old_positions: the mapping after the call and what it returns or
\* raises.  The first loop subtracts every stored timestamp from the current
\* time before anything is deleted, so a stored timestamp of None raises
\* TypeError with the mapping as it was.
cleanup_old_positions(pp, max_age, current_time) ==
    LET undated == {i \in 1..Len(pp) : pp[i].val.timestamp = None}
        to_remove == {pp[i].key : i \in {j \in 1..Len(pp) :
                          current_time - Val(pp[j].val.timestamp) > max_age}}
    IN  IF undated # {}
        THEN [previous_positions |-> pp, ret |-> Raised("TypeError")]
        ELSE [previous_positions |-> SelectSeq(pp, LAMBDA e : e.key \notin to_remove),
              ret |-> Returned(None)]

\* ---------------------------------------------------------------- actions
call_update_aircraft_position(aircraft_data, time_time) ==
    /\ previous_positions' = update_aircraft_position(previous_positions, aircraft_data, time_time)
    /\ interp_call' = [op |-> "update", aircraft_data |-> aircraft_data,
                       time_time |-> time_time]
    /\ interp_ret' = Returned(None)
    /\ UNCHANGED beyond_interp

call_interpolate_position(icao24, timestamp) ==
    /\ interp_call' = [op |-> "interpolate", icao24 |-> icao24, timestamp |-> timestamp]
    /\ interp_ret' = interpolate_position(previous_positions, icao24, timestamp)
    /\ UNCHANGED previous_positions
    /\ UNCHANGED beyond_interp

call_process_aircraft_data(aircraft_list, tick_timestamp, time_time) ==
    LET done == process_aircraft_data(previous_positions, aircraft_list, tick_timestamp, time_time) IN
    /\ previous_positions' = done.previous_positions
    /\ interp_call' = [op |-> "process", aircraft_list |-> aircraft_list,
                       tick_timestamp |-> tick_timestamp]
    /\ interp_ret' = done.ret
    /\ UNCHANGED beyond_interp

call_cleanup_old_positions(max_age, time_time) ==
    LET done == cleanup_old_positions(previous_positions, max_age, time_time) IN
    /\ previous_positions' = done.previous_positions
    /\ interp_call' = [op |-> "cleanup", max_age |-> max_age, time_time |-> time_time]
    /\ interp_ret' = done.ret
    /\ UNCHANGED beyond_interp

\* time.time() during a call is one second after the feed's timestamp; a
\* sweep runs when the feed's timestamp is max_age old, and one and two
\* seconds later.
InterpNext ==
    \/ \E s \in States : call_update_aircraft_position(s, Stamp + 1)
    \/ \E i \in Icaos, t \in TickTimes : call_interpolate_position(i, t)
    \/ \E b \in Batches, t \in {Stamp + StaleSeconds, Stamp + StaleSeconds + 1} :
           call_process_aircraft_data(b, t, Stamp + 1)
    \/ \E t \in {Stamp + DefaultMaxAge + k : k \in 0..2} :
           call_cleanup_old_positions(DefaultMaxAge, t)

InterpInit ==
    /\ clock_idle /\ interp_init /\ grid_init /\ pulse_init(DefaultCascadeLength)
    /\ io_init(None, None)
InterpSpec == InterpInit /\ [][InterpNext]_interp_vars

\* ------------------------------------------------- claims, interpolator
\* The stored state of identifier i cannot be projected to time t.
Unavailable(i, t) ==
    \/ i \notin keys(previous_positions)
    \/ at(previous_positions, i).latitude = None
    \/ at(previous_positions, i).longitude = None
    \/ at(previous_positions, i).timestamp = None
    \/ at(previous_positions, i).velocity = None
    \/ at(previous_positions, i).heading = None
    \/ abs(t - Val(at(previous_positions, i).timestamp)) > StaleSeconds

\* C12: no call of interpolate_position or process_aircraft_data raises,
\* whatever fields of the stored states are None (a missing altitude with a
\* non-zero vertical rate included): an object is projected or omitted.
C12_NeverRaises == interp_ret.kind # "raised"

\* C13: interpolate_position returns None when the identifier is unknown,
\* when the stored latitude, longitude, timestamp, velocity or heading is
\* None, or when the target time is more than 15 s from the stored
\* timestamp; in every other case (exactly 15 s included) it returns a
\* position flagged as interpolated.
C13_UnavailableOrProjected ==
    interp_call.op = "interpolate" =>
        IF Unavailable(interp_call.icao24, interp_call.timestamp)
        THEN interp_ret = Returned(None)
        ELSE /\ interp_ret.kind = "returned"
             /\ interp_ret.value # None
             /\ Val(interp_ret.value).interpolated = TRUE
             /\ Val(interp_ret.value).icao24 = interp_call.icao24

\* C14: process_aircraft_data(batch, t) records every state of the batch
\* that has an identifier and returns exactly one entry for each known
\* identifier that has a state in the batch (a state of the batch, not a
\* projection) or else a valid projection at t (flagged as interpolated),
\* and no entry for any other identifier.
C14_MergeTick ==
    interp_call.op = "process" =>
        LET batch == interp_call.aircraft_list
            t == interp_call.tick_timestamp
            live(i) == {k \in 1..Len(batch) : get(batch[k], "icao24", None) = i}
            out == interp_ret.value
            entries(i) == {k \in 1..Len(out) : out[k].icao24 = i}
        IN  /\ \A k \in 1..Len(batch) :
                   truthy_str(get(batch[k], "icao24", None))
                       => get(batch[k], "icao24", None) \in keys(previous_positions)
            /\ interp_ret.kind = "returned"
            /\ \A k \in 1..Len(out) : out[k].icao24 \in keys(previous_positions)
            /\ \A i \in keys(previous_positions) :
                   IF live(i) # {}
                   THEN /\ Cardinality(entries(i)) = 1
                        /\ \A e \in entries(i) : \E k \in live(i) : out[e] = batch[k]
                   ELSE IF ~Unavailable(i, t)
                   THEN /\ Cardinality(entries(i)) = 1
                        /\ \A e \in entries(i) :
                               /\ "interpolated" \in DOMAIN out[e]
                               /\ out[e].timestamp = Some(t)
                   ELSE entries(i) = {}

\* The identifier of a state of the feed is absent, None or empty.
NoIdentifier(aircraft_data) ==
    get(aircraft_data, "icao24", None) \in {None, Some("")}

\* C25: update_aircraft_position called with a state whose identifier is
\* absent, None or the empty string leaves the mapping completely unchanged.
C25_NoIdentifierNoChange ==
    [][(interp_call'.op = "update" /\ NoIdentifier(interp_call'.aircraft_data))
           => previous_positions' = previous_positions]_interp_vars

C25_Witness ==
    /\ interp_call.op = "update"
    /\ get(interp_call.aircraft_data, "icao24", None) = Some("")
    /\ Len(previous_positions) = 2

\* The fields update_aircraft_position stores.
Fields ==
    {"timestamp", "latitude", "longitude", "altitude", "velocity", "heading",
     "vertical_rate"}

\* C26: after update_aircraft_position(s) with a non-empty identifier the
\* stored entry of that identifier is built from s alone: every field is the
\* field of s, and a field missing from s is the current time (timestamp),
\* 0 (vertical_rate) or None, never the value stored before; the entries of
\* all other identifiers are unchanged.
C26_BuiltFromStateAlone ==
    [][(interp_call'.op = "update" /\ ~NoIdentifier(interp_call'.aircraft_data)) =>
           LET s == interp_call'.aircraft_data
               missing(f) == IF f = "timestamp" THEN Some(interp_call'.time_time)
                             ELSE IF f = "vertical_rate" THEN Some(0)
                             ELSE None
           IN  /\ keys(previous_positions') = keys(previous_positions) \cup {s.icao24}
               /\ at(previous_positions', s.icao24)
                      = [f \in Fields |-> IF f \in DOMAIN s THEN s[f] ELSE missing(f)]
               /\ \A k \in keys(previous_positions) \ {s.icao24} :
                      at(previous_positions', k) = at(previous_positions, k)
       ]_interp_vars

C26_Witness ==
    /\ interp_call.op = "update"
    /\ ~NoIdentifier(interp_call.aircraft_data)
    /\ interp_call.aircraft_data.latitude = None
    /\ "vertical_rate" \in DOMAIN interp_call.aircraft_data
    /\ Len(previous_positions) = 2
    /\ at(previous_positions, interp_call.aircraft_data.icao24).latitude = None

\* C27: for every recorded state that has latitude, longitude, velocity and
\* heading, interpolate_position at exactly the stored timestamp returns the
\* stored latitude and longitude unchanged.
C27_ZeroElapsedIdentity ==
    (/\ interp_call.op = "interpolate"
     /\ interp_call.icao24 \in keys(previous_positions)
     /\ \A f \in {"latitude", "longitude", "velocity", "heading"} :
            at(previous_positions, interp_call.icao24)[f] # None
     /\ at(previous_positions, interp_call.icao24).timestamp
            = Some(interp_call.timestamp))
    => /\ interp_ret.kind = "returned"
       /\ interp_ret.value # None
       /\ Val(interp_ret.value).latitude
              = at(previous_positions, interp_call.icao24).latitude
       /\ Val(interp_ret.value).longitude
              = at(previous_positions, interp_call.icao24).longitude

\* The stored timestamp of identifier k lies more than max_age before t.
Older(pp, k, max_age, t) ==
    /\ at(pp, k).timestamp # None
    /\ t - Val(at(pp, k).timestamp) > max_age

\* C28: cleanup_old_positions(max_age) removes exactly the stored
\* identifiers whose timestamp lies more than max_age seconds before the
\* current time, and leaves every other entry, one aged exactly max_age
\* included, unchanged.
C28_RemovesExactlyOlder ==
    [][interp_call'.op = "cleanup" =>
           /\ keys(previous_positions')
                  = {k \in keys(previous_positions) :
                         ~Older(previous_positions, k, interp_call'.max_age,
                                interp_call'.time_time)}
           /\ \A k \in keys(previous_positions') :
                  at(previous_positions', k) = at(previous_positions, k)
       ]_interp_vars

\* C29: the altitude of a projection is the stored altitude plus the stored
\* vertical rate times the elapsed time (which may be negative) when the
\* stored state has a vertical rate, and the stored altitude unchanged when
\* it has none.
C29_AltitudeProjected ==
    (/\ interp_call.op = "interpolate"
     /\ interp_ret.kind = "returned"
     /\ interp_ret.value # None)
    => LET prev_data == at(previous_positions, interp_call.icao24)
           elapsed == interp_call.timestamp - Val(prev_data.timestamp)
       IN  Val(interp_ret.value).altitude
               = IF prev_data.vertical_rate \notin {None, Some(0)}
                 THEN Some(Val(prev_data.altitude)
                               + Val(prev_data.vertical_rate) * elapsed)
                 ELSE prev_data.altitude

C29_Witness ==
    /\ interp_call.op = "interpolate"
    /\ interp_call.timestamp = Stamp - StaleSeconds
    /\ interp_ret.kind = "returned"
    /\ interp_ret.value # None
    /\ at(previous_positions, interp_call.icao24).altitude = Some(1000)
    /\ at(previous_positions, interp_call.icao24).vertical_rate = Some(2)
    /\ Val(interp_ret.value).altitude = Some(1000 - 2 * StaleSeconds)

\* The last state of a batch that carries identifier k.
LastOf(aircraft_list, k) ==
    aircraft_list[CHOOSE i \in 1..Len(aircraft_list) :
                      /\ get(aircraft_list[i], "icao24", None) = k
                      /\ \A j \in (i + 1)..Len(aircraft_list) :
                             get(aircraft_list[j], "icao24", None) # k]

\* C30: interpolate_position never modifies the mapping, and a projection is
\* not stored: asking twice gives the same answer, and after
\* process_aircraft_data an identifier of the batch holds the timestamp of
\* its last state in the batch while every other entry is as it was.
C30_ProjectionNotStored ==
    [][/\ interp_call'.op = "interpolate" => previous_positions' = previous_positions
       /\ (interp_call.op = "interpolate" /\ interp_call' = interp_call)
              => interp_ret' = interp_ret
       /\ interp_call'.op = "process" =>
              \A k \in keys(previous_positions') :
                  IF \E i \in 1..Len(interp_call'.aircraft_list) :
                         get(interp_call'.aircraft_list[i], "icao24", None) = k
                  THEN at(previous_positions', k).timestamp
                           = LastOf(interp_call'.aircraft_list, k).timestamp
                  ELSE /\ k \in keys(previous_positions)
                       /\ at(previous_positions', k) = at(previous_positions, k)
      ]_interp_vars

C30_Witness ==
    /\ interp_call.op = "process"
    /\ interp_ret.kind = "returned"
    /\ \E e \in 1..Len(interp_ret.value) :
           /\ "interpolated" \in DOMAIN interp_ret.value[e]
           /\ interp_ret.value[e].altitude = Some(1000 + 2 * StaleSeconds)
           /\ at(previous_positions, interp_ret.value[e].icao24).timestamp = Some(Stamp)
           /\ at(previous_positions, interp_ret.value[e].icao24).altitude = Some(1000)

\* C33: a state stored with heading 90 and projected to a later time never
\* has a smaller longitude than the one stored; for the state recorded at
\* (37.7749, -122.4194) with 200 m/s the projection one second later has a
\* strictly greater longitude, and its latitude is the stored latitude.
C33_EastwardProjection ==
    (/\ interp_call.op = "interpolate"
     /\ interp_ret.kind = "returned"
     /\ interp_ret.value # None
     /\ at(previous_positions, interp_call.icao24).heading = Some(90)
     /\ interp_call.timestamp > Val(at(previous_positions, interp_call.icao24).timestamp)) =>
        LET prev_data == at(previous_positions, interp_call.icao24)
            projected == Val(interp_ret.value)
            delta_lat == Val(projected.latitude) - Val(prev_data.latitude)
            delta_lon == Val(projected.longitude) - Val(prev_data.longitude)
        IN  /\ delta_lon >= 0
            /\ (/\ prev_data.latitude = Eastbound.latitude
                /\ prev_data.longitude = Eastbound.longitude
                /\ prev_data.velocity = Some(200)
                /\ interp_call.timestamp = Val(prev_data.timestamp) + 1)
                   => (delta_lon > 0 /\ abs(delta_lat) * DegreeUnits <= delta_lon)

C33_Witness ==
    /\ interp_call.op = "interpolate"
    /\ interp_call.icao24 \in keys(previous_positions)
    /\ at(previous_positions, interp_call.icao24) = With(Eastbound, "vertical_rate", Some(0))
    /\ interp_call.timestamp = Stamp + 1
    /\ interp_ret.kind = "returned"
    /\ interp_ret.value # None
    /\ Val(interp_ret.value).longitude = Some(227 - 12241940)
    /\ Val(interp_ret.value).latitude = Eastbound.latitude

\* Where in a batch the states of identifier k stand.
StatesOf(aircraft_list, k) ==
    {i \in 1..Len(aircraft_list) : get(aircraft_list[i], "icao24", None) = k}

\* C37: when a batch passed to process_aircraft_data holds several states
\* of one identifier, the output has exactly one entry for that identifier,
\* and that entry is the observation left stored for the identifier after
\* the call: every stored field is the field of the entry.
C37_OutputIsStored ==
    (interp_call.op = "process" /\ interp_ret.kind = "returned") =>
        \A k \in keys(previous_positions) :
            Cardinality(StatesOf(interp_call.aircraft_list, k)) >= 2 =>
                LET entries == {e \in 1..Len(interp_ret.value) :
                                    get(interp_ret.value[e], "icao24", None) = k}
                IN  /\ Cardinality(entries) = 1
                    /\ \A e \in entries : \A f \in Fields :
                           get(interp_ret.value[e], f, None) = at(previous_positions, k)[f]

\* ----------------------------------------------------------------------
\* Inputs of the grids.  In the definitions of the inputs a coordinate is
\* written as its number of ten-thousandths of a degree: 3000 is the Python
\* literal 0.3, and binary64(3000) the float it denotes.
\* ----------------------------------------------------------------------
Regions == {"SF_Bay_Area", "NY_Area"}

\* A date is the instant (in seconds) its sunset falls on: one second before
\* and one second after the time an idle clock shows.
Dates == {Second(StartTime) - 1, Second(StartTime) + 1}

\* ======================================================================
\* Python floats (IEEE 754 binary64), for the values 0 and 1/16 <= x < 2.
\* A float is <<a, b, c, d>>, the number (a*Limb^3 + b*Limb^2 + c*Limb + d)
\* / 2^56 written in base Limb = 2^14; b, c, d < Limb.  A binary64 has 53
\* significant bits: below 1/8 every multiple of 2^-56 is one, from 1/8 on
\* only the multiples of 2, from 1/4 on of 4, from 1/2 on of 8, from 1 on of
\* 16.  Every result is rounded to nearest, ties to even.
\* ======================================================================
Limb == 16384

\* Carries the overflow of each limb into the next higher one.
carry(f) ==
    LET c1 == f[3] + f[4] \div Limb
        b1 == f[2] + c1 \div Limb
    IN  <<f[1] + b1 \div Limb, b1 % Limb, c1 % Limb, f[4] % Limb>>

\* The binary64 nearest to f + r/10000, where 0 <= r < 10000.
round53(f, r) ==
    LET g == IF f[1] >= 2 * (Limb \div 2) THEN 16
             ELSE IF f[1] >= Limb \div 2 THEN 8
             ELSE IF f[1] >= Limb \div 4 THEN 4
             ELSE IF f[1] >= Limb \div 8 THEN 2 ELSE 1
        low == f[4] % g
        twice == 2 * (low * 10000 + r)
        up == \/ twice > g * 10000
              \/ twice = g * 10000 /\ (f[4] \div g) % 2 = 1
    IN  carry(<<f[1], f[2], f[3], f[4] - low + (IF up THEN g ELSE 0)>>)

\* float("0.dddd"): the binary64 nearest to n/10000.
binary64(n) ==
    LET a == (n % 10000) * Limb
        b == (a % 10000) * Limb
        c == (b % 10000) * Limb
        d == (c % 10000) * Limb
    IN  round53(<<(n \div 10000) * Limb + a \div 10000, b \div 10000,
                  c \div 10000, d \div 10000>>, d % 10000)

\* x + y, the exact n * x for an int n, and x <= y.
fadd(x, y) == round53(carry(<<x[1] + y[1], x[2] + y[2], x[3] + y[3], x[4] + y[4]>>), 0)
ftimes(n, x) == carry(<<n * x[1], n * x[2], n * x[3], n * x[4]>>)
fleq(x, y) ==
    LET i == CHOOSE i \in 1..5 : i = 5 \/ (x[i] # y[i] /\ \A j \in 1..(i - 1) : x[j] = y[j])
    IN  i = 5 \/ x[i] < y[i]

\* f"{x:.4f}": the number of ten-thousandths nearest to x, ties to even.
format4(x) ==
    LET p4 == x[4] * 10000
        p3 == x[3] * 10000 + p4 \div Limb
        p2 == x[2] * 10000 + p3 \div Limb
        p1 == x[1] * 10000 + p2 \div Limb
        whole == p1 \div Limb
        half == Limb \div 2
        tie == p1 % Limb = half /\ p2 % Limb = 0 /\ p3 % Limb = 0 /\ p4 % Limb = 0
    IN  IF p1 % Limb > half \/ (p1 % Limb = half /\ ~tie) \/ (tie /\ whole % 2 = 1)
        THEN whole + 1 ELSE whole

\* round(x / y) for y > 0: the quotient x / y is rounded to a binary64, and
\* that to the nearest int, ties to even.  With k = floor(x / y), the
\* binary64 quotient is k + 1/2 exactly when |2x - (2k+1)y| is less than
\* y times the distance between k + 1/2 and the next binary64.  k is at
\* most one more than the quotient of the two leading limbs of x and y.
round_div(x, y) ==
    CHOOSE n \in
      { LET m == ftimes(2, x)
            s == ftimes(2 * k + 1, y)
            v1 == (m[1] - s[1]) * Limb + (m[2] - s[2])
            v2 == v1 * Limb + (m[3] - s[3])
            far(v) == v >= 2 \/ v <= 0 - 2
            diff == IF far(v1) THEN (IF v1 > 0 THEN Limb ELSE 0 - Limb)
                    ELSE IF far(v2) THEN (IF v2 > 0 THEN Limb ELSE 0 - Limb)
                    ELSE v2 * Limb + (m[4] - s[4])
            e == IF k >= 16 THEN 4 ELSE IF k >= 8 THEN 3 ELSE IF k >= 4 THEN 2
                 ELSE IF k >= 2 THEN 1 ELSE IF k >= 1 THEN 0 ELSE 0 - 1
            shift(i) == 2 ^ (10 - e + i)
            gap(i) == y[1] \div shift(i)
            inexact(i) == y[1] % shift(i) # 0 \/ y[2] # 0 \/ y[3] # 0 \/ y[4] # 0
            below == IF k = 0 THEN 1 ELSE 0
            at_half == IF diff >= 0
                       THEN diff < gap(0) \/ (diff = gap(0) /\ inexact(0))
                       ELSE 0 - diff < gap(below) \/ (0 - diff = gap(below) /\ inexact(below))
        IN  IF at_half THEN k + (k % 2)
            ELSE IF diff > 0 THEN k + 1 ELSE k
        : k \in {j \in 0..((x[1] * Limb + x[2]) \div (y[1] * Limb + y[2]) + 1) :
                      fleq(ftimes(j, y), x) /\ ~fleq(ftimes(j + 1, y), x)} } : TRUE

\* grid_size=0.1, the default of get_sunset_for_position and of the builder
DefaultGridSize == binary64(1000)

\* The bounding boxes built: one whose latitudes 0.0 .. 0.3 step 0.1 do not
\* add up exactly in binary64, one with the step 0.5 of the NY_Area grid of
\* the tests, one whose minimum corner is no multiple of its step.
Box(min_lat, min_lon, max_lat, max_lon, grid_size) ==
    [min_lat |-> binary64(min_lat), min_lon |-> binary64(min_lon),
     max_lat |-> binary64(max_lat), max_lon |-> binary64(max_lon),
     grid_size |-> binary64(grid_size)]

Boxes ==
    { Box(0, 0, 3000, 2000, 1000),
      Box(0, 0, 10000, 5000, 5000),
      Box(2500, 2500, 4500, 4500, 1000) }

\* The tick times of the pipeline: between the two sunsets, and at the later.
TickSeconds == {Second(StartTime), Second(StartTime) + 1}

\* The coordinates asked about.
Coordinates == {binary64(n) : n \in {0, 3500, 15000}}

\* The states the feed delivers to the pipeline: two aircraft with a position
\* and a complete kinematic state, and one without a latitude.
Seen(icao24, latitude, longitude) ==
    [icao24 |-> Some(icao24), timestamp |-> Some(Second(StartTime) - 1),
     latitude |-> latitude, longitude |-> longitude,
     velocity |-> Some(200), heading |-> Some(0)]

FeedAircraft ==
    { Seen("abc123", Some(binary64(0)), Some(binary64(0))),
      Seen("def456", Some(binary64(3500)), Some(binary64(3500))),
      Seen("abc123", None, Some(binary64(0))) }

Feeds == SeqsUpTo(FeedAircraft, MaxBatch)

\* ------------------------------------------------------ the grid builder
\* calculate_sunset: the astronomy is outside the model; the sun sets at the
\* instant `date` at every coordinate of the small boxes built here.
calculate_sunset(latitude, longitude, date) == date

\* A grid is a dict from the key f"{lat:.4f}_{lon:.4f}", here the pair of the
\* two formatted numbers, to a sunset timestamp.  `calls` counts the calls of
\* calculate_sunset.
RECURSIVE while_lon(_, _, _, _, _, _)
while_lon(lat, lon, max_lon, grid_size, date, built) ==
    IF fleq(lon, max_lon)
    THEN CHOOSE r \in
           { while_lon(lat, next, max_lon, grid_size, date, more)
             : next \in {fadd(lon, grid_size)},
               more \in {[sunset_grid |-> With(built.sunset_grid, <<format4(lat), format4(lon)>>,
                                               calculate_sunset(lat, lon, date)),
                          calls |-> built.calls + 1]} } : TRUE
    ELSE built

RECURSIVE while_lat(_, _, _, _, _, _, _)
while_lat(lat, min_lon, max_lat, max_lon, grid_size, date, built) ==
    IF fleq(lat, max_lat)
    THEN CHOOSE r \in
           { while_lat(next, min_lon, max_lat, max_lon, grid_size, date, more)
             : next \in {fadd(lat, grid_size)},
               more \in {while_lon(lat, min_lon, max_lon, grid_size, date, built)} } : TRUE
    ELSE built

get_grid_sunset_times(box, date) ==
    while_lat(box.min_lat, box.min_lon, box.max_lat, box.max_lon, box.grid_size, date,
              [sunset_grid |-> <<>>, calls |-> 0])

\* The grids a caller can hold.
Grids == {get_grid_sunset_times(box, date).sunset_grid : box \in Boxes, date \in Dates}

\* ------------------------------------------------------------ the lookup
\* The region whose grid is returned, among those holding the key: the one
\* the for loop over self.sunset_grids.items() meets first.
last_match(hits) == CHOOSE i \in hits : \A j \in hits : j <= i
first_match(hits) == CHOOSE i \in hits : \A j \in hits : i <= j

\* round(x / grid_size) * grid_size, formatted
grid_coordinate(x, grid_size) ==
    format4(round53(ftimes(round_div(x, grid_size), grid_size), 0))

get_sunset_for_position(grids, latitude, longitude, grid_size) ==
    CHOOSE r \in
      { LET hits == {i \in 1..Len(grids) : grid_key \in DOMAIN grids[i].val}
        IN  IF hits = {} THEN None ELSE Some(grids[first_match(hits)].val[grid_key])
        : grid_key \in {<<grid_coordinate(latitude, grid_size),
                          grid_coordinate(longitude, grid_size)>>} } : TRUE

\* is_after_sunset, given the value `now` of get_accurate_time (in units):
\* None, or the boolean now > sunset.
is_after_sunset(grids, latitude, longitude, accurate_time) ==
    CHOOSE r \in
      { IF sunset = None THEN None ELSE Some(accurate_time > Val(sunset) * UnitsPerSecond)
        : sunset \in {get_sunset_for_position(grids, latitude, longitude, DefaultGridSize)} } : TRUE

\* ---------------------------------------------------------- the pipeline
\* timestamp > sunset_time, and the same with >= in its place.
at_or_after(timestamp, sunset_time) == timestamp >= sunset_time
after(timestamp, sunset_time) == timestamp > sunset_time

\* generate_pulse, as far as the pipeline is concerned: the pulse data carry
\* the coordinate, the sunset and the tick time, and have no key
\* "cycle_number".  Each pulse has a fresh uuid as its id and file name.
generate_pulse(latitude, longitude, sunset_time, current_time) ==
    [latitude |-> latitude, longitude |-> longitude,
     sunset_time |-> sunset_time, timestamp |-> current_time]

\* The body of the for loop of flight_data_callback for one aircraft: what it
\* adds to the records file, to the pulses directory and to the errors its
\* except clause reports.
process_aircraft(grids, timestamp, aircraft, out) ==
    LET latitude == get(aircraft, "latitude", None)
        longitude == get(aircraft, "longitude", None)
        classified(sunset_time) ==
            LET is_after == sunset_time # None /\ after(timestamp, Val(sunset_time))
                pulse_data == IF is_after
                              THEN Some(generate_pulse(Val(latitude), Val(longitude),
                                                       Val(sunset_time), timestamp))
                              ELSE None
                flight_record ==
                    [timestamp |-> timestamp,
                     icao24 |-> get(aircraft, "icao24", None),
                     latitude |-> Val(latitude),
                     longitude |-> Val(longitude),
                     sunset_status |-> IF sunset_time = None THEN "sunset time unknown"
                                       ELSE IF is_after THEN "after sunset" ELSE "before sunset",
                     sunset_time |-> sunset_time,
                     pulse_data |-> pulse_data]
            IN  [records |-> Append(out.records, flight_record),
                 pulses |-> IF pulse_data = None THEN out.pulses
                            ELSE Append(out.pulses, Val(pulse_data)),
                 errors |-> IF pulse_data = None THEN out.errors
                            ELSE Append(out.errors, "KeyError")]
    IN  IF latitude = None \/ longitude = None
        THEN out
        ELSE CHOOSE r \in
               { classified(sunset_time)
                 : sunset_time \in {get_sunset_for_position(grids, Val(latitude), Val(longitude),
                                                            DefaultGridSize)} } : TRUE

\* The body of the for loop outside any try: an exception of one aircraft
\* ends the loop.
aircraft_error_uncaught(out, next) == Len(next.errors) > Len(out.errors)

\* try: ... except Exception inside the for loop: an exception of one
\* aircraft never leaves the loop.
aircraft_error_escapes(out, next) == FALSE

RECURSIVE for_aircraft(_, _, _, _)
for_aircraft(grids, timestamp, aircraft_data, out) ==
    IF aircraft_data = <<>> THEN out
    ELSE CHOOSE r \in
           { IF aircraft_error_escapes(out, next) THEN next
             ELSE for_aircraft(grids, timestamp, Tail(aircraft_data), next)
             : next \in {process_aircraft(grids, timestamp, Head(aircraft_data), out)} } : TRUE

\* flight_data_callback(timestamp, fetcher, calculator, lattice_clock), where
\* aircraft_data is what fetcher.fetch_current_states() returned.
flight_data_callback(grids, timestamp, aircraft_data) ==
    for_aircraft(grids, timestamp, aircraft_data,
                 [records |-> <<>>, pulses |-> <<>>, errors |-> <<>>])

\* ---------------------------------------------------------------- actions
call_get_grid_sunset_times(box, date) ==
    /\ grid_call' = [op |-> "get_grid_sunset_times", box |-> box, date |-> date]
    /\ grid_ret' = get_grid_sunset_times(box, date)
    /\ UNCHANGED <<sunset_grids, registration>>
    /\ UNCHANGED beyond_grid

call_add_sunset_grid(region_name, sunset_grid) ==
    /\ sunset_grids' = put(sunset_grids, region_name, sunset_grid)
    /\ registration' = IF \E i \in 1..Len(registration) : registration[i] = region_name
                       THEN registration ELSE Append(registration, region_name)
    /\ grid_call' = [op |-> "add_sunset_grid", region_name |-> region_name]
    /\ grid_ret' = None
    /\ UNCHANGED beyond_grid

call_get_sunset_for_position(latitude, longitude) ==
    /\ grid_call' = [op |-> "get_sunset_for_position", latitude |-> latitude, longitude |-> longitude]
    /\ grid_ret' = get_sunset_for_position(sunset_grids, latitude, longitude, DefaultGridSize)
    /\ UNCHANGED <<sunset_grids, registration>>
    /\ UNCHANGED beyond_grid

call_is_after_sunset(latitude, longitude, resp) ==
    LET accurate_time == get_accurate_time(resp, system_offset, last_sync, clock)
    IN  /\ sync_due(clock, last_sync) \/ resp = [ok |-> FALSE, offset |-> 0]
        /\ system_offset' = accurate_time.system_offset
        /\ last_sync' = accurate_time.last_sync
        /\ grid_call' = [op |-> "is_after_sunset", latitude |-> latitude, longitude |-> longitude]
        /\ grid_ret' = is_after_sunset(sunset_grids, latitude, longitude, accurate_time.value)
        /\ UNCHANGED <<sunset_grids, registration>>
        /\ UNCHANGED <<clock, running, clock_thread, callbacks, pc, last_second, now, idx,
                       wake_at, main_pc, join_deadline, constructed, hist, interp_vars, pulse_vars,
                       io_vars>>

call_flight_data_callback(timestamp, aircraft_data) ==
    /\ grid_call' = [op |-> "flight_data_callback", timestamp |-> timestamp,
                     aircraft_data |-> aircraft_data]
    /\ grid_ret' = flight_data_callback(sunset_grids, timestamp, aircraft_data)
    /\ UNCHANGED <<sunset_grids, registration>>
    /\ UNCHANGED beyond_grid

GridNext ==
    \/ \E box \in Boxes, date \in Dates : call_get_grid_sunset_times(box, date)
    \/ \E region_name \in Regions, sunset_grid \in Grids :
           call_add_sunset_grid(region_name, sunset_grid)
    \/ \E latitude \in Coordinates, longitude \in Coordinates :
           call_get_sunset_for_position(latitude, longitude)
    \/ \E latitude \in Coordinates, longitude \in Coordinates, resp \in NtpResponses :
           call_is_after_sunset(latitude, longitude, resp)

GridInit ==
    /\ clock_idle /\ interp_init /\ grid_init /\ pulse_init(DefaultCascadeLength)
    /\ io_init(None, None)
GridSpec == GridInit /\ [][GridNext]_<<grid_vars, system_offset, last_sync>>

\* The pipeline: regions are registered, and the callback runs on ticks.
PipeNext ==
    \/ \E region_name \in Regions, sunset_grid \in Grids :
           call_add_sunset_grid(region_name, sunset_grid)
    \/ \E timestamp \in TickSeconds, aircraft_data \in Feeds :
           call_flight_data_callback(timestamp, aircraft_data)

PipeSpec == GridInit /\ [][PipeNext]_grid_vars

\* ----------------------------------------------------------------------
\* Claims about the pipeline and the sunset grids.  In the claims a
\* coordinate is its number of ten-thousandths, format4 of the float.
\* ----------------------------------------------------------------------
\* A state of the feed from which a position can be projected to time t.
Projectable(a, t) ==
    /\ truthy_str(a.icao24)
    /\ \A f \in {"timestamp", "latitude", "longitude", "velocity", "heading"} : a[f] # None
    /\ abs(t - Val(a.timestamp)) <= StaleSeconds

\* C15: on every tick the pipeline merges the feed's result through the
\* PositionInterpolator: an aircraft that the feed delivered on the previous
\* tick with a complete state, and that is absent from this tick's feed (the
\* feed may have returned nothing) while its projection is still valid, has a
\* record in what this tick writes.
C15_TickStep ==
    (grid_call.op = "flight_data_callback" /\ grid_call'.op = "flight_data_callback") =>
        \A k \in 1..Len(grid_call.aircraft_data) :
            LET a == grid_call.aircraft_data[k]
                fresh == \E j \in 1..Len(grid_call'.aircraft_data) :
                             grid_call'.aircraft_data[j].icao24 = a.icao24
            IN  (Projectable(a, grid_call'.timestamp) /\ ~fresh) =>
                    \E j \in 1..Len(grid_ret'.records) : grid_ret'.records[j].icao24 = a.icao24

C15_GapsFilledOnTick == [][C15_TickStep]_grid_vars

\* C16: on each tick, each aircraft with a position gets exactly one record,
\* and exactly one pulse if and only if the lookup knows a sunset for its
\* position and the tick time is after it; when the lookup knows none, the
\* record says "sunset time unknown" and carries no pulse, and "before
\* sunset" is only said of a known sunset.
C16_PulseIffPastSunset ==
    grid_call.op = "flight_data_callback" =>
        LET has_position(a) == a.latitude # None /\ a.longitude # None
            positioned == SelectSeq(grid_call.aircraft_data, has_position)
            sunset(a) == get_sunset_for_position(sunset_grids, Val(a.latitude),
                                                 Val(a.longitude), DefaultGridSize)
            past(a) == sunset(a) # None /\ grid_call.timestamp > Val(sunset(a))
        IN  /\ Len(grid_ret.records) = Len(positioned)
            /\ Len(grid_ret.pulses) = Cardinality({k \in 1..Len(positioned) : past(positioned[k])})
            /\ \A k \in 1..Len(positioned) :
                  LET a == positioned[k]
                      r == grid_ret.records[k]
                  IN  /\ r.icao24 = a.icao24
                      /\ r.pulse_data # None <=> past(a)
                      /\ past(a) =>
                            /\ Val(r.pulse_data).sunset_time = Val(sunset(a))
                            /\ Val(r.pulse_data).timestamp = grid_call.timestamp
                            /\ \E j \in 1..Len(grid_ret.pulses) : grid_ret.pulses[j] = Val(r.pulse_data)
                      /\ sunset(a) = None => r.sunset_status = "sunset time unknown"
                      /\ r.sunset_status = "before sunset" => (sunset(a) # None /\ ~past(a))
                      /\ r.sunset_status = "after sunset" => past(a)

\* A tick that wrote a pulse for one aircraft and "sunset time unknown" for
\* another.
C16_Witness ==
    /\ grid_call.op = "flight_data_callback"
    /\ Len(grid_ret.pulses) = 1
    /\ \E j, k \in 1..Len(grid_ret.records) :
          /\ grid_ret.records[j].pulse_data # None
          /\ grid_ret.records[j].sunset_status = "after sunset"
          /\ grid_ret.records[k].sunset_status = "sunset time unknown"
          /\ grid_ret.records[k].pulse_data = None

\* The step between two neighbouring rows of a grid, and the cells of a grid
\* that contain a coordinate: a cell reaches half a step from its grid point
\* in both dimensions.
Step(grid) ==
    LET gaps == {abs(k[1] - j[1]) : k \in DOMAIN grid, j \in DOMAIN grid} \ {0}
    IN  CHOOSE d \in gaps : \A g \in gaps : d <= g

CellsAt(grid, latitude, longitude) ==
    {k \in DOMAIN grid : /\ 2 * abs(k[1] - format4(latitude)) <= Step(grid)
                         /\ 2 * abs(k[2] - format4(longitude)) <= Step(grid)}

\* C17: the lookup quantizes the query with the resolution the region was
\* built with: for every registered region that has a cell containing the
\* query coordinate, the key the lookup forms is the key of such a cell, and
\* the lookup returns a sunset.
C17_QuantizesAsBuilt ==
    grid_call.op = "get_sunset_for_position" =>
        \A i \in 1..Len(sunset_grids) :
            LET cells == CellsAt(sunset_grids[i].val, grid_call.latitude, grid_call.longitude)
            IN  cells # {} =>
                    /\ <<grid_coordinate(grid_call.latitude, DefaultGridSize),
                         grid_coordinate(grid_call.longitude, DefaultGridSize)>> \in cells
                    /\ grid_ret # None

\* C18: is_after_sunset returns None for a coordinate in no cell of any
\* registered grid, and a boolean for a coordinate inside a cell of a
\* registered grid, whatever the minimum corner and the step of the grid.
C18_BooleanInsideCells ==
    grid_call.op = "is_after_sunset" =>
        IF \E i \in 1..Len(sunset_grids) :
               CellsAt(sunset_grids[i].val, grid_call.latitude, grid_call.longitude) # {}
        THEN grid_ret \in {Some(TRUE), Some(FALSE)}
        ELSE grid_ret = None

\* C19: when the key of a query is in the grids of several registered
\* regions, the lookup returns the value held by the region that was
\* registered first among them.
C19_FirstRegisteredWins ==
    grid_call.op = "get_sunset_for_position" =>
        LET grid_key == <<grid_coordinate(grid_call.latitude, DefaultGridSize),
                          grid_coordinate(grid_call.longitude, DefaultGridSize)>>
            holders == {i \in 1..Len(registration) :
                            grid_key \in DOMAIN at(sunset_grids, registration[i])}
            first == CHOOSE i \in holders : \A j \in holders : i <= j
        IN  Cardinality(holders) > 1 =>
                grid_ret = Some(at(sunset_grids, registration[first])[grid_key])

\* A lookup answered from the first of two regions that hold the key with
\* different sunsets.
C19_Witness ==
    /\ grid_call.op = "get_sunset_for_position"
    /\ Len(sunset_grids) = 2
    /\ \E k \in DOMAIN sunset_grids[1].val \cap DOMAIN sunset_grids[2].val :
          /\ k = <<format4(grid_call.latitude), format4(grid_call.longitude)>>
          /\ sunset_grids[1].val[k] # sunset_grids[2].val[k]
          /\ grid_ret = Some(sunset_grids[1].val[k])

\* The points of the regular grid from lo to hi, both ends included.
Axis(lo, hi, grid_size) ==
    {format4(lo) + i * format4(grid_size) :
         i \in 0..((format4(hi) - format4(lo)) \div format4(grid_size))}

\* C20: get_grid_sunset_times stores exactly one cell for every point of the
\* regular grid covering the box, the points on the minimum and on the
\* maximum edge of both dimensions included, keyed by the coordinate rounded
\* to 4 decimals, and calls the sunset calculation once per cell.
C20_EveryGridPoint ==
    grid_call.op = "get_grid_sunset_times" =>
        LET box == grid_call.box
            points == Axis(box.min_lat, box.max_lat, box.grid_size)
                          \X Axis(box.min_lon, box.max_lon, box.grid_size)
        IN  /\ DOMAIN grid_ret.sunset_grid = points
            /\ grid_ret.calls = Cardinality(points)
            /\ \A k \in DOMAIN grid_ret.sunset_grid :
                  grid_ret.sunset_grid[k] = grid_call.date

\* The aircraft of a feed that carry a latitude and a longitude, in order.
Positioned(aircraft_data) ==
    SelectSeq(aircraft_data,
              LAMBDA a : get(a, "latitude", None) # None /\ get(a, "longitude", None) # None)

\* C36: in the pipeline callback an exception while one aircraft is handled
\* does not keep the remaining aircraft of the tick from being handled, and
\* an aircraft without latitude or longitude is skipped with neither a record
\* nor a pulse: the records written are those of the aircraft with a
\* position, one each and in the order of the feed, however many exceptions
\* the tick has seen, and every pulse written belongs to one of them.
C36_OthersStillProcessed ==
    grid_call.op = "flight_data_callback" =>
        LET expected == Positioned(grid_call.aircraft_data) IN
        /\ Len(grid_ret.records) = Len(expected)
        /\ \A i \in 1..Len(expected) :
               /\ grid_ret.records[i].icao24 = expected[i].icao24
               /\ grid_ret.records[i].latitude = Val(expected[i].latitude)
               /\ grid_ret.records[i].longitude = Val(expected[i].longitude)
        /\ \A j \in 1..Len(grid_ret.pulses) :
               \E i \in 1..Len(grid_ret.records) :
                   grid_ret.records[i].pulse_data = Some(grid_ret.pulses[j])

C36_Witness ==
    /\ grid_call.op = "flight_data_callback"
    /\ Len(grid_call.aircraft_data) = 2
    /\ Len(grid_ret.errors) >= 1
    /\ grid_ret.records[1].pulse_data # None
    /\ Len(grid_ret.records) = 2

\* ======================================================================
\* Part 4: the pulse generator (src/osp.py).  A latitude or longitude is
\* counted in units of 1e-7 degree, a time in units of 1/UnitsPerSecond
\* second since the epoch.
\* ======================================================================
\* hashlib.sha256(...).digest() is 32 bytes long.
SequenceLength == 32

\* sunset_time.date(): the days since the epoch.
SecondsPerDay == 86400

\* ---------------------------------------------------------------- inputs
\* Latitudes 0.00001, 0.00004 and 0.0000402: equal to four decimals, the
\* last two equal to six decimals as well.
PulseLatitudes == {100, 400, 402}

\* The sunsets of the grids, and the first of them one day later.
PulseSunsets ==
    {d * UnitsPerSecond : d \in Dates \cup {Second(StartTime) - 1 + SecondsPerDay}}

\* The times pulses are asked for, counted from the first sunset: more than
\* a second and less than a second before it, less than a second after it,
\* one second after it, as many seconds after it as the sequence has bytes,
\* and one second before the cascade starts again.
PulseTimes ==
    {(Second(StartTime) - 1) * UnitsPerSecond + k :
         k \in {0 - (UnitsPerSecond + 1), 0 - 1, 1, UnitsPerSecond,
                SequenceLength * UnitsPerSecond,
                (DefaultCascadeLength - 1) * UnitsPerSecond}}

\* ------------------------------------------------------------- operations
\* f"{x:.4f}" and f"{x:.6f}": x rounded to a multiple of step units.  No
\* input lies halfway between two multiples.
to_fixed(x, step) == ((x + step \div 2) \div step) * step

\* cache_key = f"{latitude:.4f}_{longitude:.4f}_{sunset_time.date().isoformat()}"
cache_key(latitude, longitude, sunset_time) ==
    <<to_fixed(latitude, 1000), to_fixed(longitude, 1000),
      Second(sunset_time) \div SecondsPerDay>>

\* seed = f"{latitude:.6f}_{longitude:.6f}_{sunset_time.timestamp()}"
seed(latitude, longitude, sunset_time) ==
    <<to_fixed(latitude, 10), to_fixed(longitude, 10), sunset_time>>

\* hashlib.sha256(data).digest(), left uninterpreted: different data have
\* different digests.
sha256(data) == <<"sha256", data>>

\* A cache that is never hit.
never_cached(cache, key) == FALSE

\* if cache_key in self.sequence_cache
cached(cache, key) == key \in DOMAIN cache

\* generate_sunset_sequence: the cache after the call and what it returns.
generate_sunset_sequence(cache, latitude, longitude, sunset_time) ==
    LET key == cache_key(latitude, longitude, sunset_time)
        hash_bytes == sha256(seed(latitude, longitude, sunset_time))
    IN  IF cached(cache, key)
        THEN [sequence_cache |-> cache, ret |-> cache[key]]
        ELSE [sequence_cache |-> With(cache, key, hash_bytes), ret |-> hash_bytes]

\* compress_cascade
compress_cascade(cascade_sequence) == sha256(cascade_sequence)

\* int((current_time - sunset_time).total_seconds()), which truncates
\* towards zero, without the max(0, ...) around it.
signed_seconds(sunset_time, current_time) ==
    IF current_time >= sunset_time
    THEN (current_time - sunset_time) \div UnitsPerSecond
    ELSE 0 - ((sunset_time - current_time) \div UnitsPerSecond)

\* seconds_since_sunset = max(0, int((current_time - sunset_time).total_seconds()))
seconds_since_sunset(sunset_time, current_time) ==
    LET whole == IF current_time >= sunset_time
                 THEN (current_time - sunset_time) \div UnitsPerSecond
                 ELSE 0 - ((sunset_time - current_time) \div UnitsPerSecond)
    IN  IF whole > 0 THEN whole ELSE 0

\* position = seconds_since_sunset % self.cascade_length
position(length, sunset_time, current_time) ==
    seconds_since_sunset(sunset_time, current_time) % length

\* A rotation that moves on every other second only.
halved(p) == (p \div 2) % SequenceLength

\* A cut at the position itself.
unrotated(p) == p

\* position % len(sequence): where the sequence is cut.
rotation(p) == p % SequenceLength

\* sequence[r:] + sequence[:r], left uninterpreted: different cuts of a
\* sequence are different byte strings.
cascade_segment(sequence, r) == <<sequence, r>>

\* generate_pulse of PulseGenerator: the cache after the call and the pulse
\* it returns; uuid is what uuid.uuid4() draws.  pulse_hash is the first 16
\* hex digits of the digest, taken to identify it.
PulseGenerator_generate_pulse(cache, length, latitude, longitude, sunset_time, current_time, uuid) ==
    LET got == generate_sunset_sequence(cache, latitude, longitude, sunset_time)
        p == position(length, sunset_time, current_time)
        pulse == compress_cascade(cascade_segment(got.ret, rotation(p)))
    IN  [sequence_cache |-> got.sequence_cache,
         ret |-> [id |-> uuid, timestamp |-> current_time,
                  latitude |-> latitude, longitude |-> longitude,
                  sunset_time |-> sunset_time,
                  cascade_position |-> p, pulse_hash |-> pulse]]

\* ---------------------------------------------------------------- actions
\* The seed of the first call that used each cache key.
first_use(latitude, longitude, sunset_time) ==
    IF cache_key(latitude, longitude, sunset_time) \in DOMAIN first_seed
    THEN first_seed
    ELSE With(first_seed, cache_key(latitude, longitude, sunset_time),
              seed(latitude, longitude, sunset_time))

call_generate_sunset_sequence(latitude, longitude, sunset_time) ==
    LET done == generate_sunset_sequence(sequence_cache, latitude, longitude, sunset_time) IN
    /\ sequence_cache' = done.sequence_cache
    /\ pulse_call' = [op |-> "generate_sunset_sequence", latitude |-> latitude,
                      longitude |-> longitude, sunset_time |-> sunset_time]
    /\ pulse_ret' = done.ret
    /\ first_seed' = first_use(latitude, longitude, sunset_time)
    /\ UNCHANGED <<cascade_length, beyond_pulse>>

call_generate_pulse(latitude, longitude, sunset_time, current_time, uuid) ==
    LET done == PulseGenerator_generate_pulse(sequence_cache, cascade_length, latitude,
                                              longitude, sunset_time, current_time, uuid) IN
    /\ sequence_cache' = done.sequence_cache
    /\ pulse_call' = [op |-> "generate_pulse", latitude |-> latitude,
                      longitude |-> longitude, sunset_time |-> sunset_time,
                      current_time |-> current_time]
    /\ pulse_ret' = done.ret
    /\ first_seed' = first_use(latitude, longitude, sunset_time)
    /\ UNCHANGED <<cascade_length, beyond_pulse>>

PulseNext ==
    \/ \E la \in PulseLatitudes, s \in PulseSunsets :
           call_generate_sunset_sequence(la, 0, s)
    \/ \E la \in PulseLatitudes, s \in PulseSunsets, t \in PulseTimes,
          u \in {"uuid-1", "uuid-2"} :
           call_generate_pulse(la, 0, s, t, u)

\* The length of a short cascade, in seconds.
ShortCascadeLength == 7

\* A generator of the default cascade length, or of a short cascade.
PulseInit ==
    /\ clock_idle /\ interp_init /\ grid_init /\ io_init(None, None)
    /\ \E n \in {DefaultCascadeLength, ShortCascadeLength} : pulse_init(n)

PulseSpec == PulseInit /\ [][PulseNext]_pulse_vars

\* ---------------------------------------------- claims, pulse generator
\* C21: generate_pulse is deterministic: pulse_hash and cascade_position
\* are a function of (latitude, longitude, sunset_time, current_time) alone,
\* whatever calls were made before: they are what a generator that was
\* never called returns for the same arguments.
C21_FunctionOfArguments ==
    pulse_call.op = "generate_pulse" =>
        LET fresh == PulseGenerator_generate_pulse(<<>>, cascade_length,
                         pulse_call.latitude, pulse_call.longitude,
                         pulse_call.sunset_time, pulse_call.current_time, "uuid-1").ret
        IN  /\ pulse_ret.pulse_hash = fresh.pulse_hash
            /\ pulse_ret.cascade_position = fresh.cascade_position

\* C22: generate_sunset_sequence returns the same sequence on every call
\* made with the same cache key (latitude and longitude to four decimals,
\* sunset date): the digest of the seed of the first call that used the key,
\* also when the caller's six-decimal coordinate or sunset epoch differs.
C22_FirstCallersSequence ==
    pulse_call.op = "generate_sunset_sequence" =>
        pulse_ret = sha256(first_seed[cache_key(pulse_call.latitude, pulse_call.longitude,
                                                pulse_call.sunset_time)])

C22_Witness ==
    /\ pulse_call.op = "generate_sunset_sequence"
    /\ LET first == first_seed[cache_key(pulse_call.latitude, pulse_call.longitude,
                                         pulse_call.sunset_time)]
           mine == seed(pulse_call.latitude, pulse_call.longitude, pulse_call.sunset_time)
       IN  /\ first[1] # mine[1]
           /\ first[3] # mine[3]
           /\ pulse_ret = sha256(first)

\* C23: the cascade position of a pulse is max(0, floor of the seconds from
\* sunset_time to current_time) modulo the cascade length, so it is at least
\* 0 and less than the cascade length, and 0 when current_time precedes the
\* sunset.
C23_PositionInRange ==
    pulse_call.op = "generate_pulse" =>
        LET floor == (pulse_call.current_time - pulse_call.sunset_time) \div UnitsPerSecond
        IN  /\ pulse_ret.cascade_position
                   = (IF floor > 0 THEN floor ELSE 0) % cascade_length
            /\ pulse_ret.cascade_position >= 0
            /\ pulse_ret.cascade_position < cascade_length
            /\ pulse_call.current_time < pulse_call.sunset_time
                   => pulse_ret.cascade_position = 0

C23_Witness ==
    /\ pulse_call.op = "generate_pulse"
    /\ pulse_call.sunset_time - pulse_call.current_time = UnitsPerSecond + 1
    /\ pulse_ret.cascade_position = 0

\* C24: with the default cascade length of 6000 and current_time at or
\* after the sunset, the calls at t and at t + 1 second cut the cached
\* sequence at different bytes (their positions differ modulo 32), also
\* when the position goes from 5999 back to 0.
C24_NextSecondCutsElsewhere ==
    (/\ pulse_call.op = "generate_pulse"
     /\ cascade_length = DefaultCascadeLength
     /\ pulse_call.current_time >= pulse_call.sunset_time)
    => rotation(pulse_ret.cascade_position)
           # rotation(position(cascade_length, pulse_call.sunset_time,
                               pulse_call.current_time + UnitsPerSecond))

C24_Witness ==
    /\ pulse_call.op = "generate_pulse"
    /\ cascade_length = DefaultCascadeLength
    /\ pulse_ret.cascade_position = DefaultCascadeLength - 1
    /\ position(cascade_length, pulse_call.sunset_time,
                pulse_call.current_time + UnitsPerSecond) = 0

\* C38: for a fixed coordinate and sunset the digest depends on
\* current_time only through cascade_position modulo 32.  An entry of the
\* cache never changes; every pulse_hash is the digest of the cached
\* sequence of its key cut at cascade_position modulo 32; and two calls in a
\* row for the same coordinate and sunset whose positions are congruent
\* modulo 32 return the same pulse_hash.
C38_Step ==
    /\ \A k \in DOMAIN sequence_cache :
           k \in DOMAIN sequence_cache' /\ sequence_cache'[k] = sequence_cache[k]
    /\ pulse_call'.op = "generate_pulse" =>
           pulse_ret'.pulse_hash
               = compress_cascade(cascade_segment(
                     sequence_cache'[cache_key(pulse_call'.latitude, pulse_call'.longitude,
                                               pulse_call'.sunset_time)],
                     pulse_ret'.cascade_position % 32))
    /\ (/\ pulse_call.op = "generate_pulse"
        /\ pulse_call'.op = "generate_pulse"
        /\ pulse_call'.latitude = pulse_call.latitude
        /\ pulse_call'.longitude = pulse_call.longitude
        /\ pulse_call'.sunset_time = pulse_call.sunset_time
        /\ pulse_ret'.cascade_position % 32 = pulse_ret.cascade_position % 32)
           => pulse_ret'.pulse_hash = pulse_ret.pulse_hash

C38_DigestByPositionMod32 == [][C38_Step]_pulse_vars

C38_Witness ==
    /\ pulse_call.op = "generate_pulse"
    /\ cascade_length = DefaultCascadeLength
    /\ pulse_ret.cascade_position = 32
    /\ pulse_ret.pulse_hash
           = compress_cascade(cascade_segment(
                 sequence_cache[cache_key(pulse_call.latitude, pulse_call.longitude,
                                          pulse_call.sunset_time)], 0))

\* ======================================================================
\* Part 5: the feed and the pulse store.  A call of the API is answered
\* with Returned(None), with Returned(Some(states_obj)) or with an
\* exception; api is the sequence of the answers the attempts of one call
\* of fetch_current_states would get, in order.  A string that is stripped
\* is the sequence of its characters.
\* ======================================================================
\* def fetch_current_states(self, bbox=None, retry_attempts=3, retry_delay=15)
DefaultRetryAttempts == 3
DefaultRetryDelay == 15

\* The largest retry_attempts a caller passes by itself; the callback
\* leaves it at the default.
MaxRetries == 2

\* A state vector of the API.
StateVector(icao24, callsign, latitude, longitude) ==
    [icao24 |-> Some(icao24), callsign |-> callsign, time_position |-> Some(Second(StartTime) - 2),
     last_contact |-> Some(Second(StartTime) - 1), longitude |-> longitude,
     latitude |-> latitude, baro_altitude |-> Some(1000), on_ground |-> FALSE,
     velocity |-> Some(200), true_track |-> Some(0), vertical_rate |-> Some(2),
     squawk |-> None, origin_country |-> "United States"]

\* What get_states answers: it raises, returns None, returns no states,
\* states that all lack a position, or states of which one has a position.
ApiAnswers ==
    LET seen == StateVector("abc123", Some(<<"U", "A", "L", "1", " ", " ">>),
                            Some(binary64(0)), Some(binary64(0)))
        lost == StateVector("def456", Some(<<>>), None, Some(binary64(3500)))
        OpenSkyStates(states) == [time |-> Second(StartTime) - 1, states |-> states]
    IN  {Raised("Exception"), Returned(None)}
        \cup {Returned(Some(OpenSkyStates(states))) :
                  states \in {<<>>, <<lost>>, <<lost, seen>>}}

\* str.strip(): the string without its leading and trailing spaces.
strip(str) ==
    LET solid == {i \in 1..Len(str) : str[i] # " "}
    IN  IF solid = {} THEN <<>>
        ELSE SubSeq(str, CHOOSE i \in solid : \A j \in solid : i <= j,
                         CHOOSE i \in solid : \A j \in solid : j <= i)

\* _process_states: the states with a position, each as a dict with its
\* plus code.
process_states(states_obj) ==
    LET located == SelectSeq(states_obj.states,
                             LAMBDA state : state.longitude # None /\ state.latitude # None)
        aircraft(state) ==
            [icao24 |-> state.icao24,
             callsign |-> IF state.callsign # None /\ Val(state.callsign) # <<>>
                          THEN Some(strip(Val(state.callsign))) ELSE None,
             timestamp |-> Some(states_obj.time),
             position_time |-> state.time_position,
             last_contact |-> state.last_contact,
             longitude |-> state.longitude,
             latitude |-> state.latitude,
             altitude |-> state.baro_altitude,
             on_ground |-> state.on_ground,
             velocity |-> state.velocity,
             heading |-> state.true_track,
             vertical_rate |-> state.vertical_rate,
             squawk |-> state.squawk,
             origin_country |-> state.origin_country,
             plus_code |-> encode(Val(state.latitude), Val(state.longitude))]
    IN  IF located = <<>> THEN <<>>
        ELSE [i \in 1..Len(located) |-> aircraft(located[i])]

\* A fetcher that sleeps before every attempt.
always_waits(attempt) == TRUE

\* if attempt > 0: time.sleep(retry_delay)
waits(attempt) == attempt > 0

\* A request outside any try.
fetch_exception_uncaught(answer) == TRUE

\* try: ... except Exception as e: print(...), inside the for loop.
fetch_exception_escapes(answer) == FALSE

\* for attempt in range(retry_attempts), from `attempt` on, and the return
\* after the loop.
RECURSIVE attempts(_, _, _, _, _)
attempts(api, attempt, retry_attempts, retry_delay, log) ==
    IF attempt >= retry_attempts THEN [ret |-> Returned(<<>>), log |-> log]
    ELSE
    LET slept == IF waits(attempt) THEN Append(log, <<"sleep", retry_delay>>) ELSE log
        asked == Append(slept, <<"get_states">>)
        states == api[attempt + 1]
    IN  IF states.kind = "raised"
        THEN IF fetch_exception_escapes(states) THEN [ret |-> states, log |-> asked]
             ELSE attempts(api, attempt + 1, retry_attempts, retry_delay, asked)
        ELSE IF states.value = None
        THEN attempts(api, attempt + 1, retry_attempts, retry_delay, asked)
        ELSE IF Val(states.value).states # <<>>
        THEN [ret |-> Returned(process_states(Val(states.value))), log |-> asked]
        ELSE attempts(api, attempt + 1, retry_attempts, retry_delay, asked)

fetch_current_states(api, retry_attempts, retry_delay) ==
    attempts(api, 0, retry_attempts, retry_delay, <<>>)

\* flight_data_callback with its fetcher: the feed is asked with the default
\* arguments, an empty feed returns at once, and an exception of the fetch
\* is caught by the outer except clause.  `written` is what the tick added
\* to the records and the pulses.
tick_callback(api, grids, timestamp) ==
    LET fetched == fetch_current_states(api, DefaultRetryAttempts, DefaultRetryDelay)
        nothing == [records |-> <<>>, pulses |-> <<>>, errors |-> <<>>]
    IN  [ret |-> Returned(None),
         written |-> IF fetched.ret.kind = "raised" THEN nothing
                     ELSE IF fetched.ret.value = <<>> THEN nothing
                     ELSE flight_data_callback(grids, timestamp, fetched.ret.value),
         fetched |-> fetched.ret,
         log |-> fetched.log]

\* ---------------------------------------------------------------- actions
call_fetch_current_states(api, retry_attempts, retry_delay) ==
    LET done == fetch_current_states(api, retry_attempts, retry_delay) IN
    /\ feed_call' = [op |-> "fetch_current_states", api |-> api,
                     retry_attempts |-> retry_attempts, retry_delay |-> retry_delay]
    /\ feed_ret' = done.ret
    /\ feed_log' = done.log
    /\ UNCHANGED <<dynamodb_table, s3_bucket, stats, store_call, store_ret, store_log>>
    /\ UNCHANGED beyond_io

call_tick_callback(api, timestamp) ==
    LET done == tick_callback(api, sunset_grids, timestamp) IN
    /\ feed_call' = [op |-> "flight_data_callback", api |-> api, timestamp |-> timestamp,
                     fetched |-> done.fetched, written |-> done.written]
    /\ feed_ret' = done.ret
    /\ feed_log' = done.log
    /\ UNCHANGED <<dynamodb_table, s3_bucket, stats, store_call, store_ret, store_log>>
    /\ UNCHANGED beyond_io

FetchNext ==
    \/ \E n \in 0..MaxRetries, retry_delay \in {1, DefaultRetryDelay} :
           \E api \in [1..n -> ApiAnswers] :
               call_fetch_current_states(api, n, retry_delay)
    \/ \E api \in [1..DefaultRetryAttempts -> ApiAnswers], timestamp \in TickSeconds :
           call_tick_callback(api, timestamp)

FetchInit ==
    /\ clock_idle /\ interp_init /\ grid_init /\ pulse_init(DefaultCascadeLength)
    /\ io_init(None, None)

FetchSpec == FetchInit /\ [][FetchNext]_io_vars

\* ---------------------------------------------------------- claims, feed
\* An attempt that got this answer has failed.
Failed(answer) ==
    \/ answer.kind = "raised"
    \/ answer.value = None
    \/ Val(answer.value).states = <<>>

\* C31: a feed failure or an empty feed never leaves a tick.
\* fetch_current_states never raises and returns the empty list when every
\* attempt failed; the callback then returns normally, having written
\* nothing, and it returns normally whatever the feed answered.
C31_FeedFailureStaysInTick ==
    /\ feed_ret.kind = "returned"
    /\ (/\ feed_call.op = "fetch_current_states"
        /\ \A i \in 1..feed_call.retry_attempts : Failed(feed_call.api[i]))
           => feed_ret = Returned(<<>>)
    /\ feed_call.op = "flight_data_callback" =>
           /\ feed_ret = Returned(None)
           /\ feed_call.fetched.kind = "returned"
           /\ (\A i \in 1..DefaultRetryAttempts : Failed(feed_call.api[i]))
                  => /\ feed_call.fetched = Returned(<<>>)
                     /\ feed_call.written.records = <<>>
                     /\ feed_call.written.pulses = <<>>

C31_Witness ==
    /\ feed_call.op = "flight_data_callback"
    /\ feed_call.api[1] = Raised("Exception")
    /\ feed_call.api[2] = Returned(None)
    /\ feed_call.api[3].kind = "returned"
    /\ feed_call.api[3].value # None
    /\ Failed(feed_call.api[3])
    /\ feed_ret = Returned(None)
    /\ feed_call.written.records = <<>>
    /\ Len(feed_log) = 2 * DefaultRetryAttempts - 1

\* C35: fetch_current_states, called by itself or by the callback, asks the API at most retry_attempts times, it
\* sleeps retry_delay before every request but the first, a None answer, an
\* answer without states and an exception all lead to the next attempt, and
\* the first answer with states ends the call: the requests made are those
\* up to that answer, and the call returns its states with a position, each
\* with its plus code.
C35_RetriesUntilFirstAnswer ==
    feed_call.op # "none" =>
        LET api == feed_call.api
            direct == feed_call.op = "fetch_current_states"
            n == IF direct THEN feed_call.retry_attempts ELSE DefaultRetryAttempts
            retry_delay == IF direct THEN feed_call.retry_delay ELSE DefaultRetryDelay
            ret == IF direct THEN feed_ret ELSE feed_call.fetched
            good == {i \in 1..n : ~Failed(api[i])}
            first == CHOOSE i \in good : \A j \in good : i <= j
            requests == IF good = {} THEN n ELSE first
            asked == {i \in 1..Len(feed_log) : feed_log[i] = <<"get_states">>}
        IN  /\ Cardinality(asked) = requests
            /\ Cardinality(asked) <= n
            /\ Len(feed_log) = IF requests = 0 THEN 0 ELSE 2 * requests - 1
            /\ \A i \in 1..Len(feed_log) :
                   feed_log[i] = IF i % 2 = 1 THEN <<"get_states">>
                                 ELSE <<"sleep", retry_delay>>
            /\ good = {} => ret = Returned(<<>>)
            /\ good # {} =>
                   LET states == Val(api[first].value).states
                       located == {i \in 1..Len(states) :
                                       states[i].latitude # None /\ states[i].longitude # None}
                   IN  /\ ret.kind = "returned"
                       /\ Len(ret.value) = Cardinality(located)
                       /\ \A e \in 1..Len(ret.value) :
                              \E i \in located :
                                  /\ ret.value[e].icao24 = states[i].icao24
                                  /\ ret.value[e].latitude = states[i].latitude
                                  /\ ret.value[e].longitude = states[i].longitude
                                  /\ ret.value[e].plus_code
                                         = encode(Val(states[i].latitude), Val(states[i].longitude))

C35_Witness ==
    /\ feed_call.op = "fetch_current_states"
    /\ feed_call.retry_attempts = MaxRetries
    /\ feed_call.api[1] = Raised("Exception")
    /\ ~Failed(feed_call.api[2])
    /\ feed_log = <<<<"get_states">>, <<"sleep", feed_call.retry_delay>>, <<"get_states">>>>
    /\ feed_ret.kind = "returned"
    /\ Len(feed_ret.value) = 1

\* ------------------------------------------------------- the pulse store
\* The largest number of pulses stored.
MaxStores == 2

\* A store that keeps a local copy only of what reached no other backend.
backs_up_if_needed(result) == ~result.dynamodb /\ ~result.s3

\* "Always store a local backup": the local write comes after the two
\* others, whatever they did.
backs_up(result) == TRUE

\* store_pulse: the result it returns, the stats after the call, and the
\* backends tried.  writes says, for each backend, whether an attempt to
\* write to it goes through or raises; every attempt is inside its own
\* try/except Exception, which counts the failure.
store_pulse(table, bucket, counters, pulse_data, writes) ==
    LET to_dynamodb == truthy_str(table)
        to_s3 == truthy_str(bucket)
        after_remote == [dynamodb |-> to_dynamodb /\ writes.dynamodb,
                         s3 |-> to_s3 /\ writes.s3, local |-> FALSE]
        to_local == backs_up(after_remote)
        result == [after_remote EXCEPT !.local = to_local /\ writes.local]
        went(backend) == IF writes[backend] THEN "written" ELSE "raised"
        count(yes) == IF yes THEN 1 ELSE 0
    IN  [ret |-> Returned(result),
         stats |-> [dynamodb_success |-> counters.dynamodb_success + count(result.dynamodb),
                    dynamodb_errors |-> counters.dynamodb_errors
                                            + count(to_dynamodb /\ ~writes.dynamodb),
                    s3_success |-> counters.s3_success + count(result.s3),
                    s3_errors |-> counters.s3_errors + count(to_s3 /\ ~writes.s3),
                    local_backups |-> counters.local_backups + count(result.local)],
         log |-> (IF to_dynamodb THEN <<<<"dynamodb", pulse_data.id, went("dynamodb")>>>> ELSE <<>>)
                 \o (IF to_s3 THEN <<<<"s3", pulse_data.id, went("s3")>>>> ELSE <<>>)
                 \o (IF to_local THEN <<<<"local", pulse_data.id, went("local")>>>> ELSE <<>>)]

call_store_pulse(pulse_data, writes) ==
    LET done == store_pulse(dynamodb_table, s3_bucket, stats, pulse_data, writes) IN
    /\ store_call.calls < MaxStores
    /\ stats' = done.stats
    /\ store_call' = [op |-> "store_pulse", pulse_data |-> pulse_data, writes |-> writes,
                      calls |-> store_call.calls + 1]
    /\ store_ret' = done.ret
    /\ store_log' = done.log
    /\ UNCHANGED <<dynamodb_table, s3_bucket, feed_call, feed_ret, feed_log>>
    /\ UNCHANGED beyond_io

StoreNext ==
    \E id \in {"uuid-1", "uuid-2"}, writes \in [{"dynamodb", "s3", "local"} -> BOOLEAN] :
        call_store_pulse([id |-> id], writes)

\* PulseStorage(), as the tests construct it, and with a table, a bucket or
\* both.
StoreInit ==
    /\ clock_idle /\ interp_init /\ grid_init /\ pulse_init(DefaultCascadeLength)
    /\ \E table \in {None, Some("pulses")}, bucket \in {None, Some("pulse-data")} :
           io_init(table, bucket)

StoreSpec == StoreInit /\ [][StoreNext]_io_vars

\* --------------------------------------------------------- claims, store
\* Where in the log of the last call a backend stands.
Tried(backend) == {i \in 1..Len(store_log) : store_log[i][1] = backend}

\* C32: store_pulse never raises when a backend fails; the flag of each
\* backend in its result is True exactly when the write to that backend went
\* through; and the local backup is tried on every call, whatever the other
\* backends did.
C32_FlagsTellWrites ==
    store_call.op = "store_pulse" =>
        /\ store_ret.kind = "returned"
        /\ \A backend \in {"dynamodb", "s3", "local"} :
               store_ret.value[backend]
                   <=> \E i \in Tried(backend) : store_log[i][3] = "written"
        /\ Cardinality(Tried("local")) = 1
        /\ store_ret.value.local <=> store_call.writes.local
        /\ store_ret.value.dynamodb <=> (dynamodb_table # None /\ store_call.writes.dynamodb)
        /\ store_ret.value.s3 <=> (s3_bucket # None /\ store_call.writes.s3)

C32_Witness ==
    /\ store_call.op = "store_pulse"
    /\ dynamodb_table # None
    /\ s3_bucket # None
    /\ store_ret = Returned([dynamodb |-> TRUE, s3 |-> FALSE, local |-> TRUE])
    /\ Len(store_log) = 3
    /\ stats.s3_errors = 1

====
